---------------------------- MODULE Spec2Model ----------------------------
(***************************************************************************)
(* rlox: a single-pass compiler and a stack VM for a Lox-family language.  *)
(*                                                                         *)
(* SpecVM       : VM::interpret (src/src/vm.rs) executing byte code, one   *)
(*                action per opcode of the dispatch loop.                  *)
(* SpecCompiler : Compiler::compile (src/src/compiler.rs) over a token     *)
(*                stream, one action per declaration of the top-level      *)
(*                loop.                                                    *)
(***************************************************************************)
EXTENDS Integers, Sequences, FiniteSets, TLC

(***************************************************************************)
(* Bounds of the model.                                                    *)
(***************************************************************************)
\* interpret() invocations on one VM
MaxCalls == 2
\* values pushed by the set-up prefix of a generated one-opcode program
MaxSetup == 2
\* successive calls of c() in the counter programs
MaxCounterCalls == 3
\* the dispatch loop is followed while the stack, the heap and the output are
\* no longer than this (a looping program grows them without end)
MaxStack == 6
MaxHeap == 4
MaxOut == 4
\* tokens of a generated source text
MaxTokens == 3
\* bytes of a generated text handed to the Scanner, calls of scan() on it
MaxText == 4
MaxScans == 6

(***************************************************************************)
(* Value (chunk.rs): every value is a record of one shape.                 *)
(*   t : variant, n : numeric payload (Double, Bool as 0/1, function or    *)
(*   native index), s : sequence payload (String characters as codes,      *)
(*   Closure upvalue cells as indices into VM.upvalues).                   *)
(***************************************************************************)
Nil == [t |-> "Nil", n |-> 0, s |-> <<>>]
Bool(b) == [t |-> "Bool", n |-> IF b THEN 1 ELSE 0, s |-> <<>>]
Double(d) == [t |-> "Double", n |-> d, s |-> <<>>]
String(cs) == [t |-> "String", n |-> 0, s |-> cs]
Function(f) == [t |-> "Function", n |-> f, s |-> <<>>]
Closure(f, ups) == [t |-> "Closure", n |-> f, s |-> ups]
NativeFunction(k) == [t |-> "NativeFunction", n |-> k, s |-> <<>>]

\* a conversion that differs from the code's: Double 0 and the empty string
\* count as false too
truthyMut(v) ==
  CASE v.t = "Bool" -> v.n = 1
    [] v.t = "Nil" -> FALSE
    [] v.t = "Double" -> v.n # 0
    [] v.t = "String" -> v.s # <<>>
    [] OTHER -> TRUE

\* impl From<Value> for bool
truthy(v) ==
  CASE v.t = "Bool" -> v.n = 1
    [] v.t = "Nil" -> FALSE
    [] OTHER -> TRUE

\* impl PartialEq for Value
ValueEq(l, r) ==
  CASE l.t = "Bool" /\ r.t = "Bool" -> l.n = r.n
    [] l.t = "Double" /\ r.t = "Double" -> l.n = r.n
    [] l.t = "Nil" /\ r.t = "Nil" -> TRUE
    [] l.t = "String" /\ r.t = "String" -> l.s = r.s
    [] OTHER -> FALSE

\* impl Display for Value: the text println! writes, as (variant tag, payload)
Format(v) ==
  CASE v.t = "Bool" -> [tag |-> "Bool ", n |-> v.n, s |-> <<>>]
    [] v.t = "Double" -> [tag |-> "Double ", n |-> v.n, s |-> <<>>]
    [] v.t = "Nil" -> [tag |-> "Nil", n |-> 0, s |-> <<>>]
    [] v.t = "String" -> [tag |-> "", n |-> 0, s |-> v.s]
    [] OTHER -> [tag |-> "Function", n |-> v.n, s |-> <<>>]

(***************************************************************************)
(* OpCode (op_code.rs, vm.rs): op is the variant, a its operand (0 when    *)
(* the variant has none).                                                  *)
(***************************************************************************)
Op(o) == [op |-> o, a |-> 0]
OpA(o, x) == [op |-> o, a |-> x]

\* UpValueMeta { is_local, index }
UpValueMeta(l, i) == [is_local |-> l, index |-> i]

\* Function { arity, chunk { codes, values }, name, upvalues }
Fn(nm, ar, cs, vs, ups) ==
  [name |-> nm, arity |-> ar, codes |-> cs, values |-> vs, upvalues |-> ups]

\* UpValue::new(location)
UpValueNew(loc) == [location |-> loc, is_hoist |-> FALSE]

\* error message of a VmError::RuntimeError (or of a panic): text and arguments
Msg(text, a, b, s) == [text |-> text, a |-> a, b |-> b, s |-> s]
NoMsg == Msg("", 0, 0, <<>>)


(***************************************************************************)
(* State.                                                                  *)
(*   VM (vm.rs 15-21): stack, heap, globals, frames, upvalues.             *)
(*   frame    : the `frame` reference of interpret's loop, as an index     *)
(*              into frames (1-based).                                     *)
(*   status   : "idle" before the first interpret, "running" inside the    *)
(*              loop, then interpret's result: "ok" (Ok(())), "error"      *)
(*              (Err(RuntimeError(err))) or "panic" (the thread panicked). *)
(*   out      : the lines OpPrint wrote.                                   *)
(*   prog     : the compiled functions the host hands to the VM.           *)
(*   overflow_checks : the build profile (debug: an integer overflow       *)
(*              panics; release: it wraps).                                *)
(***************************************************************************)
VARIABLES prog, overflow_checks, calls, stack, heap, globals, frames, frame,
          upvalues, status, err, out

vmvars == <<prog, overflow_checks, calls, stack, heap, globals, frames, frame,
            upvalues, status, err, out>>

\* the mutable VM state as one record, for the opcode operators below
VM ==
  [stack |-> stack, heap |-> heap, globals |-> globals, frames |-> frames,
   frame |-> frame, upvalues |-> upvalues, status |-> status, err |-> err,
   out |-> out]

Apply(s) ==
  /\ stack' = s.stack
  /\ heap' = s.heap
  /\ globals' = s.globals
  /\ frames' = s.frames
  /\ frame' = s.frame
  /\ upvalues' = s.upvalues
  /\ status' = s.status
  /\ err' = s.err
  /\ out' = s.out

\* usize is 64 bits wide; 2^30 stands for 2^64 (every index of the model is
\* far below it, so a wrapped value is out of every range either way)
UsizeModulus == 1073741824

EmptyGlobals == [g \in {} |-> Nil]

\* CallFrame::new
CallFrameNew(closure, base) == [closure |-> closure, ip |-> 0, base |-> base]

Cur(s) == s.frames[s.frame]
CurFn(s) == prog.fns[Cur(s).closure.n]
CurCode(s) == CurFn(s).codes[Cur(s).ip + 1]

Top(s) == s.stack[Len(s.stack)]
\* CallFrame::peek(distance), defined when the stack holds distance + 1 values
Peek(s, distance) == s.stack[Len(s.stack) - distance]
PeekPanics(s, distance) == Len(s.stack) < distance + 1
Pop(s) == [s EXCEPT !.stack = SubSeq(@, 1, Len(@) - 1)]
Push(s, v) == [s EXCEPT !.stack = Append(@, v)]

Panic(s, why) == [s EXCEPT !.status = "panic", !.err = Msg(why, 0, 0, <<>>)]
\* an error that is recorded while the dispatch loop goes on
FailMut(s, e) == [s EXCEPT !.err = e]
\* return Err(VmError::RuntimeError(..))
Fail(s, e) == [s EXCEPT !.status = "error", !.err = e]
\* CallFrame::get_stack_value on an empty stack
EmptyStack(s) == Fail(s, Msg("Error: empty stack", 0, 0, <<>>))
OperandMustBeNumber(s) == Fail(s, Msg("Operand must be a number", 0, 0, <<>>))

\* frame.ip += 1 at the end of the loop body
IpInc(s) == [s EXCEPT !.frames[s.frame].ip = @ + 1]

(***************************************************************************)
(* Opcode semantics: VM::interpret's match arms as functions of the VM     *)
(* record.  Each returns the record after the arm, `frame.ip += 1`         *)
(* included unless the arm leaves the loop body by continue or return.     *)
(***************************************************************************)
\* f64 results that are no finite number (IEEE-754 division by zero)
PosInf == 99999
NaN == 99998

\* f64 arithmetic on the model's doubles (integers; quotients are exact in
\* every program of the model or by zero)
Arith(op, l, r) ==
  CASE op = "+" -> Double(l + r)
    [] op = "-" -> Double(l - r)
    [] op = "*" -> Double(l * r)
    [] op = "/" -> Double(IF r # 0 THEN l \div r
                          ELSE IF l = 0 THEN NaN
                          ELSE IF l > 0 THEN PosInf ELSE 0 - PosInf)
    [] op = ">" -> Bool(l > r)
    [] op = "<" -> Bool(l < r)

\* binary_op!(frame, T, op) (util.rs): the result is pushed first, then two
\* values are popped, then `continue` skips `frame.ip += 1`
binary_op(s, op) ==
  IF PeekPanics(s, 0) THEN Panic(s, "Error peek slots")
  ELSE IF Peek(s, 0).t # "Double" THEN OperandMustBeNumber(s)
  ELSE IF PeekPanics(s, 1) THEN Panic(s, "Error peek slots")
  ELSE IF Peek(s, 1).t # "Double" THEN OperandMustBeNumber(s)
  ELSE Pop(Pop(Push(s, Arith(op, Peek(s, 1).n, Peek(s, 0).n))))

OpConstant(s, index) ==
  IF index >= Len(CurFn(s).values) THEN Panic(s, "index out of bounds")
  ELSE IpInc(Push(s, CurFn(s).values[index + 1]))

OpNegate(s) ==
  IF Len(s.stack) = 0 THEN EmptyStack(s)
  ELSE IF Top(s).t = "Double" THEN IpInc(Push(Pop(s), Double(0 - Top(s).n)))
  ELSE OperandMustBeNumber(Pop(s))

\* left_v is peek(0), right_v is peek(1); the pushed string is left_v + right_v
OpAdd(s) ==
  IF PeekPanics(s, 0) THEN Panic(s, "Error peek slots")
  ELSE IF Peek(s, 0).t = "String" THEN
    IF PeekPanics(s, 1) THEN Panic(s, "Error peek slots")
    ELSE IF Peek(s, 1).t = "String"
      THEN IpInc(Push(Pop(Pop(s)), String(Peek(s, 0).s \o Peek(s, 1).s)))
      ELSE IpInc(s)
  ELSE binary_op(s, "+")

OpSubtract(s) == binary_op(s, "-")
OpMultiply(s) == binary_op(s, "*")
OpDivide(s) == binary_op(s, "/")
OpGreater(s) == binary_op(s, ">")
OpLess(s) == binary_op(s, "<")

OpNil(s) == IpInc(Push(s, Nil))
OpTrue(s) == IpInc(Push(s, Bool(TRUE)))
OpFalse(s) == IpInc(Push(s, Bool(FALSE)))

\* a Not that leaves its operand as it is
OpNotMut(s) ==
  IF Len(s.stack) = 0 THEN EmptyStack(s)
  ELSE IpInc(s)

\* let boolean: bool = value.into(); push(Value::Bool(boolean))
OpNot(s) ==
  IF Len(s.stack) = 0 THEN EmptyStack(s)
  ELSE IpInc(Push(Pop(s), Bool(truthy(Top(s)))))

OpEqual(s) ==
  IF Len(s.stack) = 0 THEN EmptyStack(s)
  ELSE IF Len(s.stack) = 1 THEN EmptyStack(Pop(s))
  ELSE IpInc(Push(Pop(Pop(s)), Bool(ValueEq(Peek(s, 0), Peek(s, 1)))))

OpPrint(s) ==
  IF Len(s.stack) = 0 THEN EmptyStack(s)
  ELSE IpInc([Pop(s) EXCEPT !.out = Append(@, Format(Top(s)))])

OpPop(s) ==
  IF Len(s.stack) = 0 THEN EmptyStack(s)
  ELSE IpInc(Pop(s))

\* an insert that keeps the value of a key already present
MapInsertMut(g, name, v) ==
  [k \in DOMAIN g \cup {name} |-> IF k \in DOMAIN g THEN g[k] ELSE v]

\* HashMap::insert
MapInsert(g, name, v) ==
  [k \in DOMAIN g \cup {name} |-> IF k = name THEN v ELSE g[k]]

UndefinedVariable(s, name) == Fail(s, Msg("Undefined variable", 0, 0, name))

OpDefineGlobal(s, index) ==
  IF index >= Len(CurFn(s).values) THEN Panic(s, "index out of bounds")
  ELSE LET name_value == CurFn(s).values[index + 1] IN
    IF name_value.t # "String" THEN Panic(s, "Warn OpDefineGlobal should be string")
    ELSE IF Len(s.stack) = 0 THEN EmptyStack(s)
    ELSE IpInc([Pop(s) EXCEPT !.globals = MapInsert(@, name_value.s, Top(s))])

OpGetGlobal(s, index) ==
  IF index >= Len(CurFn(s).values) THEN Panic(s, "index out of bounds")
  ELSE LET name_value == CurFn(s).values[index + 1] IN
    IF name_value.t # "String" THEN Panic(s, "Warn OpDefineGlobal should be string")
    ELSE IF name_value.s \notin DOMAIN s.globals
      THEN UndefinedVariable(s, name_value.s)
      ELSE IpInc(Push(s, s.globals[name_value.s]))

\* the assigned value is popped before the name is looked up
OpSetGlobal(s, index) ==
  IF index >= Len(CurFn(s).values) THEN Panic(s, "index out of bounds")
  ELSE LET name_value == CurFn(s).values[index + 1] IN
    IF name_value.t # "String" THEN Panic(s, "Warn OpDefineGlobal should be string")
    ELSE IF Len(s.stack) = 0 THEN EmptyStack(s)
    ELSE IF name_value.s \notin DOMAIN s.globals
      THEN UndefinedVariable(Pop(s), name_value.s)
      ELSE IpInc([s EXCEPT !.globals[name_value.s] = Top(s)])

\* frame.slots.borrow_mut().push(frame.slots.borrow()[..].clone()): the
\* receiver's RefMut is alive when the argument borrows the same RefCell
OpGetLocal(s, index) == Panic(s, "already mutably borrowed: BorrowError")

OpSetLocal(s, index) ==
  IF PeekPanics(s, 0) THEN Panic(s, "Error peek slots")
  ELSE IF Cur(s).base + index >= Len(s.stack) THEN Panic(s, "index out of bounds")
  ELSE IpInc([s EXCEPT !.stack[Cur(s).base + index + 1] = Top(s)])

OpJumpIfFalse(s, index) ==
  IF PeekPanics(s, 0) THEN Panic(s, "Error peek slots")
  ELSE IF ~truthy(Peek(s, 0)) THEN [s EXCEPT !.frames[s.frame].ip = @ + index]
  ELSE IpInc(s)

OpJump(s, index) == [s EXCEPT !.frames[s.frame].ip = @ + index]

\* frame.ip -= index on a usize
OpLoop(s, index) ==
  IF Cur(s).ip >= index THEN [s EXCEPT !.frames[s.frame].ip = @ - index]
  ELSE IF overflow_checks THEN Panic(s, "attempt to subtract with overflow")
  ELSE [s EXCEPT !.frames[s.frame].ip = @ - index + UsizeModulus]


\* NativeFunction(Box<fn() -> Value>): the host function of index k returns
\* Double(k)
NativeResult(k) == Double(k)

ArityError(s, arity, arg_count) ==
  Fail(s, Msg("Expected {} arguments but got {}", arity, arg_count, <<>>))

\* a frame base that leaves the callee closure below the frame
CallBaseMut(s, arg_count) == Len(s.stack) - arg_count

\* the base of the CallFrame OpCall creates
CallBase(s, arg_count) == Len(s.stack) - arg_count - 1

OpCall(s, arg_count) ==
  IF PeekPanics(s, arg_count) THEN Panic(s, "Error peek slots")
  ELSE LET value == Peek(s, arg_count) IN
    CASE value.t = "Closure" ->
           IF prog.fns[value.n].arity # arg_count
             THEN ArityError(s, prog.fns[value.n].arity, arg_count)
             ELSE [s EXCEPT !.frames = Append(@, CallFrameNew(value, CallBase(s, arg_count))),
                            !.frame = Len(s.frames) + 1]
      [] value.t = "NativeFunction" -> IpInc(Push(Pop(s), NativeResult(value.n)))
      [] OTHER -> Fail(s, Msg("Not a callable", 0, 0, <<>>))

\* a search that never finds a cell
FindUpvalueMut(ups, loc) == 0

\* self.upvalues.iter().find(|e| e.borrow().location == loc): the position of
\* the first cell with that location, 0 for None
FindUpvalue(ups, loc) ==
  LET hits == {i \in 1..Len(ups) : ups[i].location = loc} IN
    IF hits = {} THEN 0 ELSE CHOOSE i \in hits : \A j \in hits : i <= j

\* one hoist: pop the top slot to the heap and point the found cell at it
\* (OpReturn's loop body, OpCloseUpvalue)
Hoist(s) ==
  IF Len(s.stack) = 0 THEN
    \* raw_index = len - 1 underflows; in release get_stack_value()? fails next
    IF overflow_checks THEN Panic(s, "attempt to subtract with overflow")
    ELSE EmptyStack(s)
  ELSE LET raw_index == Len(s.stack) - 1
           popped == [Pop(s) EXCEPT !.heap = Append(@, Top(s))]
           index == Len(popped.heap) - 1
           hit == FindUpvalue(popped.upvalues, raw_index)
       IN IF hit = 0 THEN Panic(popped, "called Option::unwrap() on a None value")
          ELSE [popped EXCEPT !.upvalues[hit] = [location |-> index, is_hoist |-> TRUE]]

\* while base <= frame.slots.borrow().len() { .. }
RECURSIVE HoistLoop(_, _)
HoistLoop(s, base) ==
  IF s.status # "running" \/ ~(base <= Len(s.stack)) THEN s
  ELSE HoistLoop(Hoist(s), base)

OpReturn(s) ==
  IF Len(s.stack) = 0 THEN EmptyStack(s)
  ELSE LET value == Top(s)
           base == Cur(s).base
           hoisted == HoistLoop(Pop(s), base)
       IN IF hoisted.status # "running" THEN hoisted
          \* self.stack.borrow_mut().drain(base..)
          ELSE IF base > Len(hoisted.stack)
            THEN Panic(hoisted, "slice index starts past the end of the slice")
          ELSE LET popped == [hoisted EXCEPT
                                !.stack = Append(SubSeq(@, 1, base), value),
                                !.frames = SubSeq(@, 1, Len(@) - 1)]
               IN IF Len(popped.frames) = 0
                    THEN [popped EXCEPT !.status = "ok"]
                    ELSE IpInc([popped EXCEPT !.frame = Len(popped.frames)])

\* the capture of one UpValueMeta: r = [vm, ups] is the VM record and the
\* upvalues of the closure under construction
CaptureLocal(r, index) ==
  LET hit == FindUpvalue(r.vm.upvalues, index) IN
    IF hit # 0 THEN [r EXCEPT !.ups = Append(@, hit)]
    ELSE [vm |-> [r.vm EXCEPT !.upvalues = Append(@, UpValueNew(index))],
          ups |-> Append(r.ups, Len(r.vm.upvalues) + 1)]

Capture(r, meta) ==
  IF r.vm.status # "running" THEN r
  ELSE IF meta.is_local THEN CaptureLocal(r, meta.index)
  ELSE IF meta.index >= Len(Cur(r.vm).closure.s)
    THEN [r EXCEPT !.vm = Panic(@, "index out of bounds")]
    ELSE [r EXCEPT !.ups = Append(@, Cur(r.vm).closure.s[meta.index + 1])]

\* for upvalue_meta in function.upvalues.iter() { .. }
RECURSIVE CaptureLoop(_, _, _)
CaptureLoop(r, metas, k) ==
  IF k > Len(metas) THEN r ELSE CaptureLoop(Capture(r, metas[k]), metas, k + 1)

OpClosure(s) ==
  IF Len(s.stack) = 0 THEN EmptyStack(s)
  ELSE LET value == Top(s) IN
    IF value.t # "Function" THEN Fail(Pop(s), Msg("Error not a function", 0, 0, <<>>))
    ELSE LET r == CaptureLoop([vm |-> Pop(s), ups |-> <<>>], prog.fns[value.n].upvalues, 1)
         IN IF r.vm.status # "running" THEN r.vm
            ELSE IpInc(Push(r.vm, Closure(value.n, r.ups)))

OpGetUpValue(s, index) ==
  IF index >= Len(Cur(s).closure.s) THEN Panic(s, "index out of bounds")
  ELSE LET upvalue == s.upvalues[Cur(s).closure.s[index + 1]] IN
    IF ~upvalue.is_hoist THEN
      IF upvalue.location >= Len(s.stack) THEN Panic(s, "index out of bounds")
      ELSE IpInc(Push(s, s.stack[upvalue.location + 1]))
    ELSE
      IF upvalue.location >= Len(s.heap) THEN Panic(s, "index out of bounds")
      ELSE IpInc(Push(s, s.heap[upvalue.location + 1]))

OpSetUpValue(s, index) ==
  IF index >= Len(Cur(s).closure.s) THEN Panic(s, "index out of bounds")
  ELSE IF PeekPanics(s, 0) THEN Panic(s, "Error peek slots")
  ELSE LET upvalue == s.upvalues[Cur(s).closure.s[index + 1]] IN
    IF ~upvalue.is_hoist THEN
      IF upvalue.location >= Len(s.stack) THEN Panic(s, "index out of bounds")
      ELSE IpInc([s EXCEPT !.stack[upvalue.location + 1] = Top(s)])
    ELSE
      IF upvalue.location >= Len(s.heap) THEN Panic(s, "index out of bounds")
      ELSE IpInc([s EXCEPT !.heap[upvalue.location + 1] = Top(s)])

OpCloseUpvalue(s) ==
  LET hoisted == Hoist(s) IN
    IF hoisted.status # "running" THEN hoisted ELSE IpInc(hoisted)


(***************************************************************************)
(* Programs handed to the VM.  A program is the list of its functions      *)
(* (Value::Function(k) and Closure(k, ..) name fns[k]) and the functions   *)
(* the host may pass to interpret (scripts); rerun says whether the model   *)
(* follows further interpret calls on the same VM for this program.        *)
(***************************************************************************)
\* global names, as character codes
NameA == <<97>>
NameC == <<99>>
NameF == <<102>>
NameM == <<109>>

\* fun f() {}   and   fun g(a) {}
CalleeNoArgs == Fn("f", 0, <<Op("OpNil"), Op("OpReturn")>>, <<>>, <<>>)
CalleeOneArg == Fn("g", 1, <<Op("OpNil"), Op("OpReturn")>>, <<>>, <<>>)

\* the values a generated program pushes before its opcode
Samples ==
  {Nil, Bool(TRUE), Bool(FALSE), Double(0), Double(1), String(<<>>),
   String(NameA), Closure(2, <<>>), Closure(3, <<>>), Function(2),
   NativeFunction(7)}

Setups == UNION {[1..k -> Samples] : k \in 0..MaxSetup}

\* every opcode, with the operands a program over k set-up values can use
\* (constant k is the name "a")
OpsFor(k) ==
  {Op(o) : o \in {"OpNegate", "OpAdd", "OpSubtract", "OpMultiply", "OpDivide",
                  "OpNil", "OpTrue", "OpFalse", "OpNot", "OpEqual", "OpGreater",
                  "OpLess", "OpPrint", "OpPop", "OpReturn", "OpClosure",
                  "OpCloseUpvalue"}}
  \cup {OpA(o, k) : o \in {"OpConstant", "OpDefineGlobal", "OpGetGlobal", "OpSetGlobal"}}
  \cup {OpA(o, 0) : o \in {"OpGetLocal", "OpGetUpValue", "OpSetUpValue"}}
  \cup {OpA(o, i) : o \in {"OpSetLocal", "OpJumpIfFalse", "OpJump", "OpLoop"}, i \in {1, 2}}
  \cup {OpA("OpCall", n) : n \in 0..MaxSetup}

\* set-up pushes, the opcode, then Not and Print
OneOpProgram(setup, op) ==
  [fns |-> <<Fn("", 0,
                [i \in 1..Len(setup) |-> OpA("OpConstant", i - 1)]
                  \o <<op, Op("OpNot"), Op("OpPrint")>>,
                setup \o <<String(NameA)>>, <<>>),
             CalleeNoArgs, CalleeOneArg>>,
   scripts |-> {1}, rerun |-> Len(setup) <= 1]

OneOpPrograms == {OneOpProgram(su, op) : su \in Setups, op \in OpsFor(MaxSetup)}

\* c() three times:  GetGlobal c; Call 0; Print
RECURSIVE CounterCalls(_)
CounterCalls(k) ==
  IF k = 0 THEN <<>>
  ELSE <<OpA("OpGetGlobal", 2), OpA("OpCall", 0), Op("OpPrint")>> \o CounterCalls(k - 1)

\* fun inc() { n = n + 1; return n; }   n is upvalue 0, local 1 of makeCounter
IncFn ==
  Fn("inc", 0,
     <<OpA("OpGetUpValue", 0), OpA("OpConstant", 0), Op("OpAdd"),
       OpA("OpSetUpValue", 0), Op("OpPop"), OpA("OpGetUpValue", 0), Op("OpReturn"),
       Op("OpNil"), Op("OpReturn")>>,
     <<Double(1)>>, <<UpValueMeta(TRUE, 1)>>)

CounterScript ==
  Fn("", 0,
     <<OpA("OpConstant", 0), Op("OpClosure"), OpA("OpDefineGlobal", 1),
       OpA("OpGetGlobal", 1), OpA("OpCall", 0), OpA("OpDefineGlobal", 2)>>
       \o CounterCalls(MaxCounterCalls),
     <<Function(2), String(NameM), String(NameC)>>, <<>>)

\* spec.md scenario 4:
\*   fun makeCounter() { var n = 0; fun inc() { n = n + 1; return n; } return inc; }
\*   var c = makeCounter(); print c(); print c(); print c();
MakeCounterProgram ==
  [fns |-> <<CounterScript,
             Fn("makeCounter", 0,
                <<OpA("OpConstant", 0), OpA("OpConstant", 1), Op("OpClosure"),
                  OpA("OpGetLocal", 2), Op("OpReturn"), Op("OpNil"), Op("OpReturn")>>,
                <<Double(0), Function(3)>>, <<>>),
             IncFn>>,
   scripts |-> {1}, rerun |-> TRUE]

\* the same program with the closure left on the stack as the return value
\* (no GetLocal before Return)
MakeCounterDirectProgram ==
  [fns |-> <<CounterScript,
             Fn("makeCounter", 0,
                <<OpA("OpConstant", 0), OpA("OpConstant", 1), Op("OpClosure"),
                  Op("OpReturn"), Op("OpNil"), Op("OpReturn")>>,
                <<Double(0), Function(3)>>, <<>>),
             IncFn>>,
   scripts |-> {1}, rerun |-> TRUE]

\* fun f() { return 1; }  print f();
ReturnOneProgram ==
  [fns |-> <<Fn("", 0,
                <<OpA("OpConstant", 0), Op("OpClosure"), OpA("OpDefineGlobal", 1),
                  Op("OpTrue"), OpA("OpGetGlobal", 1), OpA("OpCall", 0), Op("OpPrint"),
                  Op("OpPop")>>,
                <<Function(2), String(NameF)>>, <<>>),
             Fn("f", 0, <<OpA("OpConstant", 0), Op("OpReturn"), Op("OpNil"), Op("OpReturn")>>,
                <<Double(1)>>, <<>>)>>,
   scripts |-> {1}, rerun |-> TRUE]

\* spec.md scenario 6:   fun f(a, b) {}  f(1);
ArityErrorProgram ==
  [fns |-> <<Fn("", 0,
                <<OpA("OpConstant", 0), Op("OpClosure"), OpA("OpDefineGlobal", 1),
                  OpA("OpGetGlobal", 1), OpA("OpConstant", 2), OpA("OpCall", 1),
                  Op("OpPop")>>,
                <<Function(2), String(NameF), Double(1)>>, <<>>),
             Fn("f", 2, <<Op("OpNil"), Op("OpReturn")>>, <<>>, <<>>)>>,
   scripts |-> {1}, rerun |-> TRUE]

\* spec.md scenario 1:   print 1 + 2 * 3;
ArithProgram ==
  [fns |-> <<Fn("", 0,
                <<OpA("OpConstant", 0), OpA("OpConstant", 1), OpA("OpConstant", 2),
                  Op("OpMultiply"), Op("OpAdd"), Op("OpPrint")>>,
                <<Double(1), Double(2), Double(3)>>, <<>>)>>,
   scripts |-> {1}, rerun |-> FALSE]

NameI == <<105>>
NameB == <<98>>
Foo == <<102, 111, 111>>
Bar == <<98, 97, 114>>

\* spec.md scenario 3:   var i = 0; while (i < 3) { print i; i = i + 1; }
\* (the code parse_while_statement emits for it: Loop 11 at index 13 goes
\* back to index 2, JumpIfFalse 9 at index 5 goes to the last Pop)
WhileProgram ==
  [fns |-> <<Fn("", 0,
                <<OpA("OpConstant", 0), OpA("OpDefineGlobal", 1),
                  OpA("OpGetGlobal", 2), OpA("OpConstant", 3), Op("OpLess"),
                  OpA("OpJumpIfFalse", 9), Op("OpPop"),
                  OpA("OpGetGlobal", 4), Op("OpPrint"),
                  OpA("OpGetGlobal", 6), OpA("OpConstant", 7), Op("OpAdd"),
                  OpA("OpSetGlobal", 5),
                  OpA("OpLoop", 11), Op("OpPop")>>,
                <<Double(0), String(NameI), String(NameI), Double(3), String(NameI),
                  String(NameI), String(NameI), Double(1)>>, <<>>)>>,
   scripts |-> {1}, rerun |-> FALSE]

\* var a = "foo"; var b = "bar"; print a + b;
ConcatProgram ==
  [fns |-> <<Fn("", 0,
                <<OpA("OpConstant", 0), OpA("OpDefineGlobal", 1),
                  OpA("OpConstant", 2), OpA("OpDefineGlobal", 3),
                  OpA("OpGetGlobal", 4), OpA("OpGetGlobal", 5), Op("OpAdd"),
                  Op("OpPrint")>>,
                <<String(Foo), String(NameA), String(Bar), String(NameB),
                  String(NameA), String(NameB)>>, <<>>)>>,
   scripts |-> {1}, rerun |-> FALSE]

\* fun f() {}  print f == f;
SameFunctionProgram ==
  [fns |-> <<Fn("", 0,
                <<OpA("OpConstant", 0), Op("OpClosure"), OpA("OpDefineGlobal", 1),
                  OpA("OpGetGlobal", 1), OpA("OpGetGlobal", 1), Op("OpEqual"),
                  Op("OpPrint")>>,
                <<Function(2), String(NameF)>>, <<>>),
             CalleeNoArgs>>,
   scripts |-> {1}, rerun |-> FALSE]

\* var a = 1; var a = 0; print a; a = 1; c = 1;
GlobalsProgram ==
  [fns |-> <<Fn("", 0,
                <<OpA("OpConstant", 0), OpA("OpDefineGlobal", 1),
                  OpA("OpConstant", 2), OpA("OpDefineGlobal", 1),
                  OpA("OpGetGlobal", 1), Op("OpPrint"),
                  OpA("OpConstant", 0), OpA("OpSetGlobal", 1), Op("OpPop"),
                  OpA("OpConstant", 0), OpA("OpSetGlobal", 3), Op("OpPop")>>,
                <<Double(1), String(NameA), Double(0), String(NameC)>>, <<>>)>>,
   scripts |-> {1}, rerun |-> FALSE]

\* a function that reads its one upvalue, local 0 of the enclosing frame
ReadsLocal0 ==
  Fn("g", 0, <<OpA("OpGetUpValue", 0), Op("OpReturn")>>, <<>>,
     <<UpValueMeta(TRUE, 0)>>)

\* { var x = 1; fun g() { x } fun h() { x } }  { var y = 0; fun g() { y } }
\* x and y both live in stack slot 0; the closures are popped and the
\* variable is closed at the end of each block
CaptureProgram ==
  [fns |-> <<Fn("", 0,
                <<OpA("OpConstant", 0), OpA("OpConstant", 1), Op("OpClosure"),
                  OpA("OpConstant", 1), Op("OpClosure"),
                  Op("OpPop"), Op("OpPop"), Op("OpCloseUpvalue"),
                  OpA("OpConstant", 2), OpA("OpConstant", 1), Op("OpClosure"),
                  Op("OpPop"), Op("OpCloseUpvalue")>>,
                <<Double(1), Function(2), Double(0)>>, <<>>),
             ReadsLocal0>>,
   scripts |-> {1}, rerun |-> FALSE]

\* { var x = 1; var y = 0; fun g() { x; y } }   two captured locals
TwoCaptureProgram ==
  [fns |-> <<Fn("", 0,
                <<OpA("OpConstant", 0), OpA("OpConstant", 1), OpA("OpConstant", 2),
                  Op("OpClosure"), Op("OpPop"), Op("OpCloseUpvalue"),
                  OpA("OpConstant", 2), Op("OpClosure"), Op("OpPop"),
                  Op("OpCloseUpvalue")>>,
                <<Double(1), Double(0), Function(2)>>, <<>>),
             Fn("g", 0, <<OpA("OpGetUpValue", 0), Op("OpPop"), OpA("OpGetUpValue", 1),
                          Op("OpReturn")>>, <<>>,
                <<UpValueMeta(TRUE, 0), UpValueMeta(TRUE, 1)>>)>>,
   scripts |-> {1}, rerun |-> FALSE]

\* fun f() { var x = 1; fun g() { x } }  nil; f();
\* f runs in a frame with base 1; x is its local 1 (stack slot 2); g's
\* own closure hands its upvalue on to a closure made inside g
NestedCaptureProgram ==
  [fns |-> <<Fn("", 0,
                <<OpA("OpConstant", 0), Op("OpClosure"), OpA("OpDefineGlobal", 1),
                  Op("OpNil"), OpA("OpGetGlobal", 1), OpA("OpCall", 0), Op("OpPop")>>,
                <<Function(2), String(NameF)>>, <<>>),
             Fn("f", 0,
                <<OpA("OpConstant", 0), OpA("OpConstant", 1), Op("OpClosure"),
                  OpA("OpCall", 0)>>,
                <<Double(1), Function(3)>>, <<>>),
             Fn("g", 0,
                <<OpA("OpConstant", 0), Op("OpClosure"), OpA("OpGetUpValue", 0),
                  OpA("OpSetUpValue", 0), Op("OpPop")>>,
                <<Function(4)>>, <<UpValueMeta(TRUE, 1)>>),
             Fn("h", 0, <<OpA("OpGetUpValue", 0), Op("OpReturn")>>, <<>>,
                <<UpValueMeta(FALSE, 0)>>)>>,
   scripts |-> {1}, rerun |-> FALSE]

Catalogue ==
  {MakeCounterProgram, MakeCounterDirectProgram, ReturnOneProgram, ArityErrorProgram,
   ArithProgram, WhileProgram, ConcatProgram, SameFunctionProgram, GlobalsProgram,
   CaptureProgram, TwoCaptureProgram, NestedCaptureProgram}

Programs == OneOpPrograms \cup Catalogue

(***************************************************************************)
(* Compiler (compiler.rs).                                                 *)
(*                                                                         *)
(* Token { token_type, lexeme, line }: the lexeme is the token's text as   *)
(* character codes; every token of the model is on line 0.                 *)
(***************************************************************************)
Tok(ty, lx) == [token_type |-> ty, lexeme |-> lx, line |-> 0]
\* Token::default()
TokenDefault == Tok("Error", <<>>)
EofToken == Tok("Eof", <<>>)
\* the lexer's Error token; its lexeme is the text "Unexpected character"
ErrorToken ==
  Tok("Error", <<85, 110, 101, 120, 112, 101, 99, 116, 101, 100, 32,
                 99, 104, 97, 114, 97, 99, 116, 101, 114>>)

\* enum Precedence, in declaration order
PrecNone == 0
PrecAssignment == 1
PrecOr == 2
PrecAnd == 3
PrecEquality == 4
PrecComparison == 5
PrecTerm == 6
PrecFactor == 7
PrecUnary == 8
PrecCall == 9
PrecPrimary == 10

\* impl From<TokenType> for Precedence
PrecedenceFrom(token_type) ==
  CASE token_type \in {"Minus", "Plus"} -> PrecTerm
    [] token_type \in {"Slash", "Star"} -> PrecFactor
    [] token_type \in {"BangEqual", "EqualEqual"} -> PrecEquality
    [] token_type \in {"Greater", "GreaterEqual"} -> PrecComparison
    [] token_type \in {"Less", "LessEqual"} -> PrecComparison
    [] token_type = "LeftParen" -> PrecCall
    [] OTHER -> PrecNone

\* impl Add<i32> for Precedence
PrecedenceAdd(p, rhs) == IF p = PrecPrimary THEN p ELSE p + rhs

\* Chunk::new, Builder::new(name), Local
ChunkNew == [codes |-> <<>>, values |-> <<>>, lines |-> <<>>]
Local(name, depth) == [name |-> name, depth |-> depth]
BuilderNew(name) ==
  [chunk |-> ChunkNew, scope_depth |-> 0, locals |-> <<Local(name, 0)>>]

\* ParseError
TokenError == [kind |-> "TokenError", message |-> ""]
ConsumeError(message) == [kind |-> "ConsumeError", message |-> message]

VARIABLES source, scanner, previous, current, panic_mode, errors, builder,
          functions, diagnostics, log, synced, cstatus, compiled

cvars == <<source, scanner, previous, current, panic_mode, errors, builder,
           functions, diagnostics, log, synced, cstatus, compiled>>

(***************************************************************************)
(*   source      : the program text as the sequence of its tokens          *)
(*   scanner     : the scanner's position in it (tokens handed out)        *)
(*   functions   : the finished Function objects (a Value::Closure         *)
(*                 constant names one by its index)                        *)
(*   diagnostics : the lines show_error printed                            *)
(*   log         : history of show_error prints ("diag") and synchronize   *)
(*                 calls ("sync"), in order                                *)
(*   synced      : the last parse_declaration ended with synchronize()     *)
(*   cstatus     : "new" after Compiler::new, "compiling" inside           *)
(*                 compile(), "done" when it has returned (compiled is     *)
(*                 the Function), "panic" when it panicked, "hang" when it *)
(*                 is inside a loop that never exits                       *)
(***************************************************************************)
C ==
  [scanner |-> scanner, previous |-> previous, current |-> current,
   panic_mode |-> panic_mode, errors |-> errors, builder |-> builder,
   functions |-> functions, diagnostics |-> diagnostics, log |-> log,
   synced |-> synced, status |-> cstatus]

ApplyC(c) ==
  /\ scanner' = c.scanner
  /\ previous' = c.previous
  /\ current' = c.current
  /\ panic_mode' = c.panic_mode
  /\ errors' = c.errors
  /\ builder' = c.builder
  /\ functions' = c.functions
  /\ diagnostics' = c.diagnostics
  /\ log' = c.log
  /\ synced' = c.synced
  /\ cstatus' = c.status

Ok(c) == c.status = "compiling"
CPanic(c) == [c EXCEPT !.status = "panic"]

\* Scanner::scan over the token sequence: the next token, Eof at the end
\* and ever after
Scan(c) ==
  IF c.scanner < Len(source)
    THEN [c EXCEPT !.current = source[c.scanner + 1], !.scanner = @ + 1]
    ELSE [c EXCEPT !.current = EofToken]

show_error(c, token, message) ==
  IF c.panic_mode THEN c
  ELSE [c EXCEPT !.panic_mode = TRUE,
                 !.diagnostics = Append(@, [at |-> token.lexeme,
                                            at_end |-> token.token_type = "Eof",
                                            message |-> message]),
                 !.log = Append(@, "diag")]

\* the loop of advance(): scan until a token that is no Error token
RECURSIVE ScanLoop(_)
ScanLoop(c) ==
  LET scanned == Scan(c) IN
    IF scanned.current.token_type # "Error" THEN scanned
    ELSE ScanLoop([show_error(scanned, scanned.current, "Invalid Token")
                     EXCEPT !.errors = Append(@, TokenError)])

advance(c) == IF ~Ok(c) THEN c ELSE ScanLoop([c EXCEPT !.previous = c.current])

check(c, token_type) == c.current.token_type = token_type

\* match_token: its effect when check() holds
consume(c, token_type, message) ==
  IF ~Ok(c) THEN c
  ELSE IF check(c, token_type) THEN advance(c)
  ELSE [show_error(c, c.current, message)
          EXCEPT !.errors = Append(@, ConsumeError(message))]

\* Chunk::add_op_*: one opcode and its line
\* an emit that records no line
EmitMut(c, code, line) ==
  IF ~Ok(c) THEN c
  ELSE [c EXCEPT !.builder.chunk.codes = Append(@, code)]

Emit(c, code, line) ==
  IF ~Ok(c) THEN c
  ELSE [c EXCEPT !.builder.chunk.codes = Append(@, code),
                 !.builder.chunk.lines = Append(@, line)]

\* Chunk::add_value: the index is Len(values) before the push
add_value(c, value) ==
  IF ~Ok(c) THEN c ELSE [c EXCEPT !.builder.chunk.values = Append(@, value)]

\* Chunk::add_op_constant
add_op_constant(c, value, line) ==
  IF ~Ok(c) THEN c
  ELSE Emit(add_value(c, value), OpA("OpConstant", Len(c.builder.chunk.values)), line)

CodeLen(c) == Len(c.builder.chunk.codes)

\* a patch that leaves the placeholder operand
patch_opMut(c, index) == c

patch_op(c, index) ==
  IF ~Ok(c) THEN c
  ELSE LET op == c.builder.chunk.codes[index + 1] IN
    IF op.op \in {"OpJumpIfFalse", "OpJump"}
      THEN [c EXCEPT !.builder.chunk.codes[index + 1].a = CodeLen(c) - index]
      ELSE CPanic(c)

\* str::parse::<f64>().unwrap_or(0.0) on a lexeme of decimal digits
RECURSIVE ParseDigits(_, _)
ParseDigits(lx, acc) ==
  IF lx = <<>> THEN acc
  ELSE IF Head(lx) \in 48..57 THEN ParseDigits(Tail(lx), 10 * acc + (Head(lx) - 48))
  ELSE 0

ParseF64(lx) == IF lx = <<>> THEN 0 ELSE ParseDigits(lx, 0)


\* Function::new(arity, chunk, name)
FunctionNew(arity, chunk, name) == [arity |-> arity, chunk |-> chunk, name |-> name]

Line(c) == c.previous.line

\* resolve_local: the position of the first match in the reversed list,
\* that is the distance of the last match from the end; -1 stands for None
resolve_local(c, name) ==
  LET locals == c.builder.locals
      hits == {i \in 1..Len(locals) : locals[i].name = name}
  IN IF hits = {} THEN -1
     ELSE Len(locals) - (CHOOSE i \in hits : \A j \in hits : j <= i)

define_local_variable(c, token) ==
  IF ~Ok(c) THEN c
  ELSE IF resolve_local(c, token.lexeme) # -1
    THEN show_error(c, token, "Already variable with this name in this scope")
    ELSE [c EXCEPT !.builder.locals =
                     Append(@, Local(token.lexeme, c.builder.scope_depth))]

define_global_variable(c, token) ==
  IF ~Ok(c) THEN c
  ELSE Emit(add_value(c, String(token.lexeme)),
            OpA("OpDefineGlobal", Len(c.builder.chunk.values)), token.line)

define_variable(c, token) ==
  IF ~Ok(c) THEN c
  ELSE IF c.builder.scope_depth = 0 THEN define_global_variable(c, token)
  ELSE define_local_variable(c, token)

enter_scope(c) ==
  IF ~Ok(c) THEN c ELSE [c EXCEPT !.builder.scope_depth = @ + 1]

\* exit_scope: the loop body starts with locals.remove(locals.len()), an
\* index past the end, which panics; scope_depth is a u32 that enter_scope
\* raised before, so the subtraction does not underflow
exit_scope(c) ==
  IF ~Ok(c) THEN c
  ELSE LET left == [c EXCEPT !.builder.scope_depth = @ - 1]
           locals == left.builder.locals
       IN IF locals[Len(locals)].depth > left.builder.scope_depth
            THEN CPanic(left)
            ELSE left

parse_number(c) ==
  IF ~Ok(c) THEN c
  ELSE add_op_constant(c, Double(ParseF64(c.previous.lexeme)), c.previous.line)

parse_literal(c) ==
  IF ~Ok(c) THEN c
  ELSE CASE c.previous.token_type = "False" -> Emit(c, Op("OpFalse"), Line(c))
         [] c.previous.token_type = "True" -> Emit(c, Op("OpTrue"), Line(c))
         [] c.previous.token_type = "Nil" -> Emit(c, Op("OpNil"), Line(c))
         [] OTHER -> c

parse_string(c) ==
  IF ~Ok(c) THEN c
  ELSE add_op_constant(c, String(c.previous.lexeme), c.previous.line)

\* the opcodes parse_binary emits for an operator token
BinaryOps(token_type) ==
  CASE token_type = "Plus" -> <<"OpAdd">>
    [] token_type = "Minus" -> <<"OpSubtract">>
    [] token_type = "Star" -> <<"OpMultiply">>
    [] token_type = "Slash" -> <<"OpDivide">>
    [] token_type = "BangEqual" -> <<"OpEqual", "OpNot">>
    [] token_type = "EqualEqual" -> <<"OpEqual">>
    [] token_type = "Greater" -> <<"OpGreater">>
    [] token_type = "GreaterEqual" -> <<"OpLess", "OpNot">>
    [] token_type = "Less" -> <<"OpLess">>
    [] token_type = "LessEqual" -> <<"OpGreater", "OpNot">>
    [] OTHER -> <<>>

RECURSIVE EmitAll(_, _, _)
EmitAll(c, ops, line) ==
  IF ops = <<>> THEN c ELSE EmitAll(Emit(c, Op(Head(ops)), line), Tail(ops), line)

\* the tokens synchronize() stops on without consuming them
SyncKeywords == {"Class", "Fun", "Var", "For", "If", "While", "Print", "Return"}

\* the loop of synchronize(): at Eof no arm breaks and advance() keeps
\* returning Eof, so the loop never exits
RECURSIVE SyncLoop(_)
SyncLoop(c) ==
  IF ~Ok(c) THEN c
  ELSE IF check(c, "SemiColon") THEN advance(c)
  ELSE IF c.current.token_type \in SyncKeywords THEN c
  ELSE IF check(c, "Eof") THEN [c EXCEPT !.status = "hang"]
  ELSE SyncLoop(advance(c))

synchronize(c) ==
  IF ~Ok(c) THEN c
  ELSE SyncLoop([c EXCEPT !.panic_mode = FALSE, !.synced = TRUE,
                          !.log = Append(@, "sync")])

\* sequencing: the value v (a compiler state) handed to the rest F
With(v, F(_)) == F(v)

\* add_op_*(.., self.previous.line)
EmitP(c, code) == Emit(c, code, Line(c))

\* show_error(self.previous.clone(), message)
ErrorAtPreviousMut(c, message) == c
ErrorAtPrevious(c, message) == show_error(c, c.previous, message)

\* the parameter loop of parse_func_declaration; the result carries arity
RECURSIVE Parameters(_, _)
Parameters(c, arity) ==
  IF ~Ok(c) THEN [c |-> c, n |-> arity]
  ELSE With(consume(c, "Identifier", "Expect parameter name"), LAMBDA named :
       With(define_local_variable(named, named.previous), LAMBDA one :
         IF Ok(one) /\ check(one, "Comma")
           THEN Parameters(advance(one), arity + 1)
           ELSE [c |-> one, n |-> arity + 1]))

\* the two opcodes every conditional jump site emits: JumpIfFalse(0), Pop
JumpIfFalsePop(c) == EmitP(EmitP(c, OpA("OpJumpIfFalse", 0)), Op("OpPop"))

(***************************************************************************)
(* The recursive-descent functions of the compiler.  They call one another *)
(* in a cycle, so they are the arms of one recursive operator: Parse(fn,   *)
(* c, x) is the compiler after fn ran in state c, x being fn's precedence  *)
(* argument (0 when fn has none).  The argument loop returns the state and *)
(* the count.                                                              *)
(***************************************************************************)
RECURSIVE Parse(_, _, _)
Parse(fn, c, x) ==
  LET Expression(d) == Parse("parse_expression", d, 0)
      Precedence(d, precedence) == Parse("parse_precedence", d, precedence)
      Statement(d) == Parse("parse_statement", d, 0)
  IN
  IF ~Ok(c) THEN (IF fn = "CallArgs" THEN [c |-> c, n |-> x] ELSE c)
  ELSE CASE
    \* parse_expression
    fn = "parse_expression" -> Precedence(c, PrecAssignment)

    \* parse_precedence(precedence)
    [] fn = "parse_precedence" ->
         With(Parse("InfixLoop", Parse("parse_prefix", advance(c), x), x),
              LAMBDA operand :
           IF Ok(operand) /\ x <= PrecAssignment /\ check(operand, "Equal")
             THEN ErrorAtPrevious(advance(operand), "Invalid assignment target")
             ELSE operand)

    \* the while loop of parse_precedence
    [] fn = "InfixLoop" ->
         IF x <= PrecedenceFrom(c.current.token_type)
           THEN Parse("InfixLoop", Parse("parse_infix", advance(c), 0), x)
           ELSE c

    \* parse_prefix(precedence)
    [] fn = "parse_prefix" ->
         LET token == c.previous IN
         CASE token.token_type = "LeftParen" -> Parse("parse_group", c, 0)
           [] token.token_type = "Minus" -> Parse("parse_unary", c, 0)
           [] token.token_type = "Number" -> parse_number(c)
           [] token.token_type \in {"True", "False", "Nil"} -> parse_literal(c)
           [] token.token_type = "String" -> parse_string(c)
           [] token.token_type = "Identifier" -> Parse("parse_variable", c, x)
           [] OTHER -> show_error(c, token, "Expect expression")

    \* parse_infix
    [] fn = "parse_infix" ->
         LET token == c.previous IN
         CASE token.token_type \in {"Minus", "Plus", "Star", "Slash", "EqualEqual",
                                    "Greater", "GreaterEqual", "Less", "LessEqual"}
                -> Parse("parse_binary", c, 0)
           [] token.token_type = "And" -> Parse("parse_and", c, 0)
           [] token.token_type = "Or" -> Parse("parse_or", c, 0)
           [] token.token_type = "LeftParen" -> Parse("parse_call", c, 0)
           [] OTHER -> CPanic(c)

    \* parse_group
    [] fn = "parse_group" ->
         consume(Expression(c), "RightParen", "Expect ')' after expression")

    \* parse_unary
    [] fn = "parse_unary" ->
         LET token == c.previous IN
         With(Precedence(c, PrecUnary), LAMBDA operand :
           CASE token.token_type = "Minus" -> Emit(operand, Op("OpNegate"), token.line)
             [] token.token_type = "Bang" -> Emit(operand, Op("OpNot"), token.line)
             [] OTHER -> operand)

    \* parse_binary
    [] fn = "parse_binary" ->
         LET token == c.previous
             precedence == PrecedenceFrom(token.token_type)
         IN EmitAll(Precedence(c, precedence), BinaryOps(token.token_type), token.line)

    \* parse_variable(precedence)
    [] fn = "parse_variable" ->
         LET token == c.previous
             index == resolve_local(c, token.lexeme)
             assign == x <= PrecAssignment /\ check(c, "Equal")
             global_index == Len(c.builder.chunk.values)
         IN IF index = -1
              THEN IF assign
                     THEN Emit(Expression(advance(add_value(c, String(token.lexeme)))),
                               OpA("OpSetGlobal", global_index), token.line)
                     ELSE Emit(add_value(c, String(token.lexeme)),
                               OpA("OpGetGlobal", global_index), token.line)
              ELSE IF assign
                     THEN Emit(Expression(advance(c)), OpA("OpSetLocal", index), token.line)
                     ELSE Emit(c, OpA("OpGetLocal", index), token.line)

    \* parse_and
    [] fn = "parse_and" ->
         LET then_index == CodeLen(c)
         IN patch_op(Precedence(JumpIfFalsePop(c), PrecAnd), then_index)

    \* parse_or
    [] fn = "parse_or" ->
         LET else_index == CodeLen(c)
             then_index == CodeLen(c) + 1
         IN patch_op(
              Precedence(
                EmitP(patch_op(EmitP(EmitP(c, OpA("OpJumpIfFalse", 0)), OpA("OpJump", 0)),
                               else_index),
                      Op("OpPop")),
                PrecOr),
              then_index)

    \* the argument loop of parse_call, x arguments parsed so far
    [] fn = "CallArgs" ->
         With(Expression(c), LAMBDA one :
           IF Ok(one) /\ check(one, "Comma")
             THEN Parse("CallArgs", advance(one), x + 1)
             ELSE [c |-> one, n |-> x + 1])

    \* parse_call
    [] fn = "parse_call" ->
         With(IF check(c, "RightParen") THEN [c |-> c, n |-> 0]
              ELSE Parse("CallArgs", c, 0),
              LAMBDA args :
           EmitP(consume(args.c, "RightParen", "Expect ')' after arguments"),
                 OpA("OpCall", args.n)))

    \* parse_expression_statement
    [] fn = "parse_expression_statement" ->
         consume(Expression(c), "SemiColon", "Expect ';' after expression")

    \* parse_print_statement
    [] fn = "parse_print_statement" ->
         EmitP(consume(Expression(c), "SemiColon", "Expect ';' after value"),
               Op("OpPrint"))

    \* parse_return_statement; error::EXPECT_SEMICOLON_AFTER_RETURN has no
    \* definition in error.rs, so the message is carried under that name
    [] fn = "parse_return_statement" ->
         IF check(c, "SemiColon")
           THEN EmitP(EmitP(advance(c), Op("OpNil")), Op("OpReturn"))
           ELSE EmitP(consume(Expression(c), "SemiColon",
                              "EXPECT_SEMICOLON_AFTER_RETURN"),
                      Op("OpReturn"))

    \* parse_var_declaration
    [] fn = "parse_var_declaration" ->
         With(consume(c, "Identifier", "Expect variable name"), LAMBDA named :
           define_variable(
             consume(IF check(named, "Equal") THEN Expression(advance(named))
                     ELSE Emit(named, Op("OpNil"), named.previous.line),
                     "SemiColon", "Expect ';' after variable declaration"),
             named.previous))

    \* parse_block_statement
    [] fn = "parse_block_statement" ->
         IF ~check(c, "RightBrace") /\ ~check(c, "Eof")
           THEN Parse("parse_block_statement", Parse("parse_declaration", c, 0), 0)
           ELSE consume(c, "RightBrace", "Expect '}' after block")

    \* parse_if_statement
    [] fn = "parse_if_statement" ->
         With(consume(Expression(consume(c, "LeftParen", "Expect '(' after 'if'")),
                      "RightParen", "Expect ')' after condition"),
              LAMBDA cond :
         With(Statement(JumpIfFalsePop(cond)), LAMBDA then_branch :
         With(EmitP(patch_op(EmitP(then_branch, OpA("OpJump", 0)), CodeLen(cond)),
                    Op("OpPop")),
              LAMBDA patched :
           patch_op(IF Ok(patched) /\ check(patched, "Else")
                      THEN Statement(advance(patched))
                      ELSE patched,
                    CodeLen(then_branch)))))

    \* parse_while_statement
    [] fn = "parse_while_statement" ->
         With(consume(Expression(consume(c, "LeftParen", "Expect '(' after while")),
                      "RightParen", "Expect ')' after condition"),
              LAMBDA cond :
         With(Statement(JumpIfFalsePop(cond)), LAMBDA body :
           EmitP(patch_op(EmitP(body, OpA("OpLoop", CodeLen(body) - CodeLen(c))),
                          CodeLen(cond)),
                 Op("OpPop"))))

    \* parse_for_statement: init is the state after the initializer clause,
    \* cond after the condition clause, incre after the increment clause
    [] fn = "parse_for_statement" ->
         With(consume(enter_scope(c), "LeftParen", "Expect ')' after for"),
              LAMBDA opened :
         With(IF ~Ok(opened) THEN opened
              ELSE IF check(opened, "SemiColon") THEN advance(opened)
              ELSE IF check(opened, "Var")
                THEN Parse("parse_var_declaration", advance(opened), 0)
              ELSE Parse("parse_expression_statement", opened, 0),
              LAMBDA init :
         With(Ok(init) /\ ~check(init, "SemiColon"), LAMBDA has_cond :
         With(IF has_cond
                THEN consume(Expression(init), "SemiColon",
                             "Expect ';' after for condition")
                ELSE advance(init),
              LAMBDA tested :
         With(IF has_cond THEN JumpIfFalsePop(tested) ELSE tested, LAMBDA cond :
         With(IF Ok(cond) /\ ~check(cond, "RightParen")
                THEN patch_op(
                       EmitP(EmitP(Expression(EmitP(cond, OpA("OpJump", 0))), Op("OpPop")),
                             OpA("OpLoop", CodeLen(init))),
                       CodeLen(cond))
                ELSE advance(cond),
              LAMBDA incre :
         With(EmitP(incre, OpA("OpLoop", CodeLen(cond))), LAMBDA looped :
           exit_scope(IF has_cond
                        THEN EmitP(patch_op(looped, CodeLen(tested)), Op("OpPop"))
                        ELSE looped))))))))

    \* parse_statement
    [] fn = "parse_statement" ->
         CASE check(c, "Print") -> Parse("parse_print_statement", advance(c), 0)
           [] check(c, "LeftBrace") ->
                exit_scope(Parse("parse_block_statement", enter_scope(advance(c)), 0))
           [] check(c, "If") -> Parse("parse_if_statement", advance(c), 0)
           [] check(c, "While") -> Parse("parse_while_statement", advance(c), 0)
           [] check(c, "For") -> Parse("parse_for_statement", advance(c), 0)
           [] check(c, "Return") -> Parse("parse_return_statement", c, 0)
           [] OTHER -> Parse("parse_expression_statement", c, 0)

    \* parse_func_declaration: declared is the state when the builder is
    \* swapped, ended the state when the body's builder is dropped
    [] fn = "parse_func_declaration" ->
         With(consume(c, "Identifier", "Expect function name"), LAMBDA named :
         With(IF named.builder.scope_depth # 0
                THEN define_variable(named, named.previous) ELSE named,
              LAMBDA declared :
         With(consume(
                enter_scope([declared EXCEPT
                               !.builder = BuilderNew(named.previous.lexeme)]),
                "LeftParen", "Expect '(' after function name"),
              LAMBDA opened :
         With(IF Ok(opened) /\ ~check(opened, "RightParen")
                THEN Parameters(opened, 0)
                ELSE [c |-> opened, n |-> 0],
              LAMBDA params :
         With(exit_scope(
                EmitP(EmitP(Parse("parse_block_statement",
                                  consume(consume(params.c, "RightParen",
                                                  "Expect ')' after parameters"),
                                          "LeftBrace", "Expect '{' before function body"),
                                  0),
                            Op("OpNil")),
                      Op("OpReturn"))),
              LAMBDA ended :
           IF ~Ok(ended) THEN ended
           ELSE With(add_op_constant(
                       [ended EXCEPT
                          !.builder = declared.builder,
                          !.functions =
                            Append(@, FunctionNew(params.n, ended.builder.chunk,
                                                  named.previous.lexeme))],
                       Closure(Len(ended.functions) + 1, <<>>),
                       Line(ended)),
                     LAMBDA constant :
                  IF constant.builder.scope_depth = 0
                    THEN define_global_variable(constant, named.previous)
                    ELSE constant))))))

    \* parse_declaration
    [] fn = "parse_declaration" ->
         With(CASE check(c, "Var") -> Parse("parse_var_declaration", advance(c), 0)
                [] check(c, "Fun") -> Parse("parse_func_declaration", advance(c), 0)
                [] OTHER -> Statement(c),
              LAMBDA parsed :
           IF Ok(parsed) /\ parsed.panic_mode THEN synchronize(parsed)
           ELSE [parsed EXCEPT !.synced = FALSE])

\* the entry point of compile()'s loop
parse_declaration(c) == Parse("parse_declaration", c, 0)

(***************************************************************************)
(* Source texts handed to the compiler, token by token.                    *)
(***************************************************************************)
\* the text of a token that is always spelled the same
Lexeme(token_type) ==
  CASE token_type = "LeftParen" -> <<40>>
    [] token_type = "RightParen" -> <<41>>
    [] token_type = "LeftBrace" -> <<123>>
    [] token_type = "RightBrace" -> <<125>>
    [] token_type = "SemiColon" -> <<59>>
    [] token_type = "Comma" -> <<44>>
    [] token_type = "Minus" -> <<45>>
    [] token_type = "Plus" -> <<43>>
    [] token_type = "Slash" -> <<47>>
    [] token_type = "Star" -> <<42>>
    [] token_type = "Bang" -> <<33>>
    [] token_type = "BangEqual" -> <<33, 61>>
    [] token_type = "Equal" -> <<61>>
    [] token_type = "EqualEqual" -> <<61, 61>>
    [] token_type = "Less" -> <<60>>
    [] token_type = "Greater" -> <<62>>
    [] token_type = "And" -> <<97, 110, 100>>
    [] token_type = "Or" -> <<111, 114>>
    [] token_type = "Print" -> <<112, 114, 105, 110, 116>>
    [] token_type = "Var" -> <<118, 97, 114>>
    [] token_type = "Fun" -> <<102, 117, 110>>
    [] token_type = "If" -> <<105, 102>>
    [] token_type = "Else" -> <<101, 108, 115, 101>>
    [] token_type = "While" -> <<119, 104, 105, 108, 101>>
    [] token_type = "For" -> <<102, 111, 114>>
    [] token_type = "Return" -> <<114, 101, 116, 117, 114, 110>>
    [] token_type = "True" -> <<116, 114, 117, 101>>
    [] token_type = "False" -> <<102, 97, 108, 115, 101>>
    [] token_type = "Nil" -> <<110, 105, 108>>
    [] OTHER -> <<>>

T(token_type) == Tok(token_type, Lexeme(token_type))
\* a one-digit number, a one-letter identifier
Num(d) == Tok("Number", <<48 + d>>)
Id(ch) == Tok("Identifier", <<ch>>)

\* print false and (1/0); print true or (1/0);
ShortCircuitSource ==
  <<T("Print"), T("False"), T("And"), T("LeftParen"), Num(1), T("Slash"), Num(0),
    T("RightParen"), T("SemiColon"),
    T("Print"), T("True"), T("Or"), T("LeftParen"), Num(1), T("Slash"), Num(0),
    T("RightParen"), T("SemiColon")>>

\* { var a = 1; print a; }
BlockLocalSource ==
  <<T("LeftBrace"), T("Var"), Id(97), T("Equal"), Num(1), T("SemiColon"),
    T("Print"), Id(97), T("SemiColon"), T("RightBrace")>>

\* { var a = 1; var b = 2; print a; print b; }
TwoLocalsSource ==
  <<T("LeftBrace"), T("Var"), Id(97), T("Equal"), Num(1), T("SemiColon"),
    T("Var"), Id(98), T("Equal"), Num(2), T("SemiColon"),
    T("Print"), Id(97), T("SemiColon"), T("Print"), Id(98), T("SemiColon"),
    T("RightBrace")>>

\* fun f(a) { return a; }
ParameterSource ==
  <<T("Fun"), Id(102), T("LeftParen"), Id(97), T("RightParen"), T("LeftBrace"),
    T("Return"), Id(97), T("SemiColon"), T("RightBrace")>>

\* if (true) print 1; else print 2;
IfElseSource ==
  <<T("If"), T("LeftParen"), T("True"), T("RightParen"), T("Print"), Num(1),
    T("SemiColon"), T("Else"), T("Print"), Num(2), T("SemiColon")>>

\* fun f() { if (true) print 1; }
IfInFunctionSource ==
  <<T("Fun"), Id(102), T("LeftParen"), T("RightParen"), T("LeftBrace"),
    T("If"), T("LeftParen"), T("True"), T("RightParen"), T("Print"), Num(1),
    T("SemiColon"), T("RightBrace")>>

\* a + b = c;
SumTargetSource ==
  <<Id(97), T("Plus"), Id(98), T("Equal"), Id(99), T("SemiColon")>>

\* (a) = 1;
GroupTargetSource ==
  <<T("LeftParen"), Id(97), T("RightParen"), T("Equal"), Num(1), T("SemiColon")>>

\* for (;;) print 1;
ForeverSource ==
  <<T("For"), T("LeftParen"), T("SemiColon"), T("SemiColon"), T("RightParen"),
    T("Print"), Num(1), T("SemiColon")>>

\* print 1 != 2;
BangEqualSource ==
  <<T("Print"), Num(1), T("BangEqual"), Num(2), T("SemiColon")>>

\* print 1 - 2 - 3;
LeftAssocSource ==
  <<T("Print"), Num(1), T("Minus"), Num(2), T("Minus"), Num(3), T("SemiColon")>>

\* print !true;
NotSource ==
  <<T("Print"), T("Bang"), T("True"), T("SemiColon")>>

\* print -1;
NegateSource ==
  <<T("Print"), T("Minus"), Num(1), T("SemiColon")>>

\* fun f(a) { }
OneParameterSource ==
  <<T("Fun"), Id(102), T("LeftParen"), Id(97), T("RightParen"), T("LeftBrace"),
    T("RightBrace")>>

\* { var a = 1; { var a = 2; } }
ShadowSource ==
  <<T("LeftBrace"), T("Var"), Id(97), T("Equal"), Num(1), T("SemiColon"),
    T("LeftBrace"), T("Var"), Id(97), T("Equal"), Num(2), T("SemiColon"),
    T("RightBrace"), T("RightBrace")>>

\* { var a = a; }
SelfInitSource ==
  <<T("LeftBrace"), T("Var"), Id(97), T("Equal"), Id(97), T("SemiColon"),
    T("RightBrace")>>

\* return; print nil;
ReturnSource ==
  <<T("Return"), T("SemiColon"), T("Print"), T("Nil"), T("SemiColon")>>

\* return 1;
ReturnValueSource ==
  <<T("Return"), Num(1), T("SemiColon")>>

SourceCatalogue ==
  { ShortCircuitSource,
    \* ; ; print 1;
    <<T("SemiColon"), T("SemiColon"), T("Print"), Num(1), T("SemiColon")>>,
    \* 1 = ; print 2;
    <<Num(1), T("Equal"), T("SemiColon"), T("Print"), Num(2), T("SemiColon")>>,
    \* print ) 1 @ ; print ; print 2;
    <<T("Print"), T("RightParen"), Num(1), ErrorToken, T("SemiColon"),
      T("Print"), T("SemiColon"), T("Print"), Num(2), T("SemiColon")>>,
    \* var a = 1; print a; a = 2;
    <<T("Var"), Id(97), T("Equal"), Num(1), T("SemiColon"),
      T("Print"), Id(97), T("SemiColon"),
      Id(97), T("Equal"), Num(2), T("SemiColon")>>,
    \* { print 1; }
    <<T("LeftBrace"), T("Print"), Num(1), T("SemiColon"), T("RightBrace")>>,
    BlockLocalSource, TwoLocalsSource, ParameterSource, IfElseSource, IfInFunctionSource,
    SumTargetSource, GroupTargetSource,
    \* if ( ) print 1; print 2;
    <<T("If"), T("LeftParen"), T("RightParen"), T("Print"), Num(1), T("SemiColon"),
      T("Print"), Num(2), T("SemiColon")>>,
    \* while (1 print 1; print 2;
    <<T("While"), T("LeftParen"), Num(1), T("Print"), Num(1), T("SemiColon"),
      T("Print"), Num(2), T("SemiColon")>>,
    \* fun f() { print 1; } f();
    <<T("Fun"), Id(102), T("LeftParen"), T("RightParen"), T("LeftBrace"),
      T("Print"), Num(1), T("SemiColon"), T("RightBrace"),
      Id(102), T("LeftParen"), T("RightParen"), T("SemiColon")>>,
    \* while (false) print 1;
    <<T("While"), T("LeftParen"), T("False"), T("RightParen"), T("Print"), Num(1),
      T("SemiColon")>>,
    ForeverSource,
    \* for (var a = 1; a < 2; a = a + 1) print a;
    <<T("For"), T("LeftParen"), T("Var"), Id(97), T("Equal"), Num(1), T("SemiColon"),
      Id(97), T("Less"), Num(2), T("SemiColon"),
      Id(97), T("Equal"), Id(97), T("Plus"), Num(1), T("RightParen"),
      T("Print"), Id(97), T("SemiColon")>>,
    BangEqualSource, LeftAssocSource, NotSource, NegateSource, OneParameterSource,
    ShadowSource, SelfInitSource, ReturnValueSource,
    \* print 1 - 2 - 3; print -1 * 2 == 3;
    <<T("Print"), Num(1), T("Minus"), Num(2), T("Minus"), Num(3), T("SemiColon"),
      T("Print"), T("Minus"), Num(1), T("Star"), Num(2), T("EqualEqual"), Num(3),
      T("SemiColon")>>,
    ReturnSource }

\* the tokens of the generated source texts
Alphabet ==
  { Num(1), Id(97), T("SemiColon"), T("Equal"), T("Plus"), T("Print"), T("Var"),
    T("LeftParen"), T("RightParen"), ErrorToken }

Sources ==
  SourceCatalogue \cup UNION {[1..n -> Alphabet] : n \in 0..MaxTokens}

\* Compiler::new(source): every field but the source
CompilerNew ==
  /\ scanner = 0
  /\ previous = TokenDefault
  /\ current = TokenDefault
  /\ panic_mode = FALSE
  /\ errors = <<>>
  /\ builder = BuilderNew(<<>>)
  /\ functions = <<>>
  /\ diagnostics = <<>>
  /\ log = <<>>
  /\ synced = FALSE
  /\ cstatus = "new"
  /\ compiled = FunctionNew(0, ChunkNew, <<>>)

\* VM::new(): every field of the machine
VMNew ==
  /\ calls = 0
  /\ stack = <<>>
  /\ heap = <<>>
  /\ globals = EmptyGlobals
  /\ frames = <<>>
  /\ frame = 0
  /\ upvalues = <<>>
  /\ status = "idle"
  /\ err = NoMsg
  /\ out = <<>>


(***************************************************************************)
(* Scanner (scanner.rs), byte by byte.                                     *)
(*   text    : Scanner.source, the bytes of the program text               *)
(*   cursor  : the Scanner's current, start and line; status is "ready"    *)
(*             or "panic" (an index past the end of the text was read)     *)
(*   scanned : the tokens scan() has returned, in order                    *)
(***************************************************************************)
VARIABLES text, cursor, scanned

svars == <<text, cursor, scanned>>

\* Scanner::new(source): every field but the source
ScannerNew == [current |-> 0, start |-> 0, line |-> 0, status |-> "ready"]

is_digit(c) == c >= 48 /\ c <= 57
is_alpha(c) == (c >= 97 /\ c <= 122) \/ (c >= 65 /\ c <= 90) \/ c = 95

is_at_end(s) == s.current >= Len(text)

\* peek() is source.as_bytes()[current]: the index is out of bounds, and the
\* thread panics, exactly when is_at_end() holds
peek(s) == text[s.current + 1]

peek_next(s) == IF s.current + 1 < Len(text) THEN text[s.current + 2] ELSE 0

\* Scanner::advance: current += 1, then the byte at current - 1
ScannerAdvance(s) ==
  IF s.current < Len(text) THEN [s EXCEPT !.current = @ + 1]
  ELSE [s EXCEPT !.current = @ + 1, !.status = "panic"]

\* match_byte(c), the Scanner after it (current moves when the byte matches)
match_byte(s, c) ==
  IF is_at_end(s) THEN s
  ELSE IF peek(s) = c THEN [s EXCEPT !.current = @ + 1]
  ELSE s

\* Scanner::token(token_type)
token(s, token_type) ==
  [token_type |-> token_type,
   lexeme |-> CASE token_type = "Eof" -> <<>>
                [] token_type = "Error" -> ErrorToken.lexeme
                [] token_type = "String" -> SubSeq(text, s.start + 2, s.current - 1)
                [] OTHER -> SubSeq(text, s.start + 1, s.current),
   line |-> s.line]

\* what scan() hands back: the Scanner after the call and the token (none
\* when the call panicked)
Returns(s, token_type) ==
  [s |-> s,
   tok |-> IF s.status = "panic" THEN TokenDefault ELSE token(s, token_type)]

\* the while loops of the scanner, by the function they are in:
\*   skip_whitespace   : while !is_at_end() && peek() != b'\n'
\*   identifier_token  : while (is_alpha(peek()) || is_digit(peek())) && !is_at_end()
\*   number_token      : while is_digit(peek()) && !is_at_end()
\*   string_token      : while peek() != b'"' && !is_at_end()  (counting lines)
\* in the last three peek() is evaluated before is_at_end()
RECURSIVE ScanWhile(_, _)
ScanWhile(s, fn) ==
  IF fn = "skip_whitespace"
    THEN IF ~is_at_end(s) /\ peek(s) # 10
           THEN ScanWhile(ScannerAdvance(s), fn) ELSE s
  ELSE IF is_at_end(s) THEN [s EXCEPT !.status = "panic"]
  ELSE IF fn = "identifier_token"
    THEN IF is_alpha(peek(s)) \/ is_digit(peek(s))
           THEN ScanWhile(ScannerAdvance(s), fn) ELSE s
  ELSE IF fn = "number_token"
    THEN IF is_digit(peek(s)) THEN ScanWhile(ScannerAdvance(s), fn) ELSE s
  ELSE IF peek(s) # 34
    THEN ScanWhile(ScannerAdvance(IF peek(s) = 10 THEN [s EXCEPT !.line = @ + 1]
                                   ELSE s),
                   fn)
  ELSE s

RECURSIVE skip_whitespace(_)
skip_whitespace(s) ==
  IF is_at_end(s) THEN [s EXCEPT !.status = "panic"]
  ELSE IF peek(s) \in {13, 32, 9} THEN skip_whitespace(ScannerAdvance(s))
  ELSE IF peek(s) = 10
    THEN skip_whitespace(ScannerAdvance([s EXCEPT !.line = @ + 1]))
  ELSE IF peek(s) = 47 /\ peek_next(s) = 47
    THEN skip_whitespace(ScanWhile(s, "skip_whitespace"))
  ELSE s

identifier_token(s) ==
  With(ScanWhile(s, "identifier_token"), LAMBDA ended :
  With(SubSeq(text, ended.start + 1, ended.current), LAMBDA lexeme :
    Returns(ended,
      CASE lexeme = Lexeme("And") -> "And"
        [] lexeme = <<99, 108, 97, 115, 115>> -> "Class"
        [] lexeme = Lexeme("Else") -> "Else"
        [] lexeme = Lexeme("If") -> "If"
        [] lexeme = Lexeme("Nil") -> "Nil"
        [] lexeme = Lexeme("Or") -> "Or"
        [] lexeme = Lexeme("Print") -> "Print"
        [] lexeme = Lexeme("Return") -> "Return"
        [] lexeme = <<115, 117, 112, 101, 114>> -> "Super"
        [] lexeme = Lexeme("Var") -> "Var"
        [] lexeme = Lexeme("While") -> "While"
        [] lexeme = Lexeme("False") -> "False"
        [] lexeme = Lexeme("For") -> "For"
        [] lexeme = Lexeme("Fun") -> "Fun"
        [] lexeme = <<116, 104, 105, 115>> -> "This"
        [] lexeme = Lexeme("True") -> "True"
        [] OTHER -> "Identifier")))

number_token(s) ==
  With(ScanWhile(s, "number_token"), LAMBDA whole :
    IF whole.status = "ready" /\ peek(whole) = 46 /\ is_digit(peek_next(whole))
      THEN Returns(ScanWhile(ScannerAdvance(whole), "number_token"), "Number")
      ELSE Returns(whole, "Number"))

string_token(s) ==
  With(ScanWhile(s, "string_token"), LAMBDA ended :
    IF ended.status = "panic" THEN Returns(ended, "Error")
    ELSE IF is_at_end(ended) THEN Returns(ended, "Error")
    ELSE Returns(ScannerAdvance(ended), "String"))

\* Scanner::scan
scan(s) ==
  With(skip_whitespace(s), LAMBDA skipped :
    IF skipped.status = "panic" THEN Returns(skipped, "Eof")
    ELSE With([skipped EXCEPT !.start = skipped.current], LAMBDA begun :
      IF is_at_end(begun) THEN Returns(begun, "Eof")
      ELSE With(ScannerAdvance(begun), LAMBDA t :
        With(text[t.current], LAMBDA c :
        With(match_byte(t, 61), LAMBDA matched :
          IF is_alpha(c) THEN identifier_token(t)
          ELSE CASE c = 40 -> Returns(t, "LeftParen")
                 [] c = 41 -> Returns(t, "RightParen")
                 [] c = 123 -> Returns(t, "LeftBrace")
                 [] c = 125 -> Returns(t, "RightBrace")
                 [] c = 59 -> Returns(t, "SemiColon")
                 [] c = 44 -> Returns(t, "Comma")
                 [] c = 46 -> Returns(t, "Dot")
                 [] c = 45 -> Returns(t, "Minus")
                 [] c = 43 -> Returns(t, "Plus")
                 [] c = 47 -> Returns(t, "Slash")
                 [] c = 42 -> Returns(t, "Star")
                 [] c = 33 ->
                      Returns(matched, IF matched # t THEN "BangEqual" ELSE "Bang")
                 [] c = 61 ->
                      Returns(matched, IF matched # t THEN "EqualEqual" ELSE "Equal")
                 [] c = 60 ->
                      Returns(matched, IF matched # t THEN "LessEqual" ELSE "Less")
                 [] c = 62 ->
                      Returns(matched,
                              IF matched # t THEN "GreaterEqual" ELSE "Greater")
                 [] c = 34 -> string_token(t)
                 [] c >= 49 /\ c <= 57 -> number_token(t)
                 [] OTHER -> Returns(t, "Error"))))))

vars == <<vmvars, cvars, svars>>

(***************************************************************************)
(* VM::new and VM::interpret.                                              *)
(***************************************************************************)
InitVM ==
  /\ prog \in Programs
  /\ overflow_checks \in BOOLEAN
  /\ VMNew
  /\ source = <<>>
  /\ CompilerNew
  /\ text = <<>>
  /\ cursor = ScannerNew
  /\ scanned = <<>>

\* the host calls interpret(closure): frames.push(global_frame);
\* frame = &mut self.frames[0]
Interpret ==
  /\ status \in {"idle", "ok", "error"}
  /\ calls < MaxCalls
  /\ (calls # 0) => prog.rerun
  /\ \E e \in prog.scripts :
       frames' = Append(frames, CallFrameNew(Closure(e, <<>>), 0))
  /\ frame' = 1
  /\ status' = "running"
  /\ err' = NoMsg
  /\ calls' = calls + 1
  /\ UNCHANGED <<prog, overflow_checks, stack, heap, globals, upvalues, out, cvars, svars>>

\* while frame.ip < frame.closure.function.chunk.codes.len()
InLoop ==
  /\ status = "running"
  /\ Cur(VM).ip < Len(CurFn(VM).codes)
  /\ Len(stack) <= MaxStack /\ Len(heap) <= MaxHeap /\ Len(out) <= MaxOut

At(o) == InLoop /\ CurCode(VM).op = o

Fixed == UNCHANGED <<prog, overflow_checks, calls, cvars, svars>>

\* the loop condition fails: Ok(())
FallOffEnd ==
  /\ status = "running"
  /\ ~(Cur(VM).ip < Len(CurFn(VM).codes))
  /\ status' = "ok"
  /\ UNCHANGED <<prog, overflow_checks, calls, stack, heap, globals, frames, frame,
                 upvalues, err, out, cvars, svars>>

DoConstant == At("OpConstant") /\ Apply(OpConstant(VM, CurCode(VM).a)) /\ Fixed
DoNegate == At("OpNegate") /\ Apply(OpNegate(VM)) /\ Fixed
DoAdd == At("OpAdd") /\ Apply(OpAdd(VM)) /\ Fixed
DoSubtract == At("OpSubtract") /\ Apply(OpSubtract(VM)) /\ Fixed
DoMultiply == At("OpMultiply") /\ Apply(OpMultiply(VM)) /\ Fixed
DoDivide == At("OpDivide") /\ Apply(OpDivide(VM)) /\ Fixed
DoNil == At("OpNil") /\ Apply(OpNil(VM)) /\ Fixed
DoTrue == At("OpTrue") /\ Apply(OpTrue(VM)) /\ Fixed
DoFalse == At("OpFalse") /\ Apply(OpFalse(VM)) /\ Fixed
DoNot == At("OpNot") /\ Apply(OpNot(VM)) /\ Fixed
DoEqual == At("OpEqual") /\ Apply(OpEqual(VM)) /\ Fixed
DoGreater == At("OpGreater") /\ Apply(OpGreater(VM)) /\ Fixed
DoLess == At("OpLess") /\ Apply(OpLess(VM)) /\ Fixed
DoPrint == At("OpPrint") /\ Apply(OpPrint(VM)) /\ Fixed
DoPop == At("OpPop") /\ Apply(OpPop(VM)) /\ Fixed
DoDefineGlobal == At("OpDefineGlobal") /\ Apply(OpDefineGlobal(VM, CurCode(VM).a)) /\ Fixed
DoGetGlobal == At("OpGetGlobal") /\ Apply(OpGetGlobal(VM, CurCode(VM).a)) /\ Fixed
DoSetGlobal == At("OpSetGlobal") /\ Apply(OpSetGlobal(VM, CurCode(VM).a)) /\ Fixed
DoGetLocal == At("OpGetLocal") /\ Apply(OpGetLocal(VM, CurCode(VM).a)) /\ Fixed
DoSetLocal == At("OpSetLocal") /\ Apply(OpSetLocal(VM, CurCode(VM).a)) /\ Fixed
DoJumpIfFalse == At("OpJumpIfFalse") /\ Apply(OpJumpIfFalse(VM, CurCode(VM).a)) /\ Fixed
DoJump == At("OpJump") /\ Apply(OpJump(VM, CurCode(VM).a)) /\ Fixed
DoLoop == At("OpLoop") /\ Apply(OpLoop(VM, CurCode(VM).a)) /\ Fixed
DoCall == At("OpCall") /\ Apply(OpCall(VM, CurCode(VM).a)) /\ Fixed
DoReturn == At("OpReturn") /\ Apply(OpReturn(VM)) /\ Fixed
DoClosure == At("OpClosure") /\ Apply(OpClosure(VM)) /\ Fixed
DoGetUpValue == At("OpGetUpValue") /\ Apply(OpGetUpValue(VM, CurCode(VM).a)) /\ Fixed
DoSetUpValue == At("OpSetUpValue") /\ Apply(OpSetUpValue(VM, CurCode(VM).a)) /\ Fixed
DoCloseUpvalue == At("OpCloseUpvalue") /\ Apply(OpCloseUpvalue(VM)) /\ Fixed

NextVM ==
  \/ Interpret
  \/ FallOffEnd
  \/ DoConstant \/ DoNegate \/ DoAdd \/ DoSubtract \/ DoMultiply \/ DoDivide
  \/ DoNil \/ DoTrue \/ DoFalse \/ DoNot \/ DoEqual \/ DoGreater \/ DoLess
  \/ DoPrint \/ DoPop \/ DoDefineGlobal \/ DoGetGlobal \/ DoSetGlobal
  \/ DoGetLocal \/ DoSetLocal \/ DoJumpIfFalse \/ DoJump \/ DoLoop
  \/ DoCall \/ DoReturn \/ DoClosure \/ DoGetUpValue \/ DoSetUpValue
  \/ DoCloseUpvalue

SpecVM == InitVM /\ [][NextVM]_vars


(***************************************************************************)
(* Compiler::new and Compiler::compile.  One action per pass of compile's  *)
(* loop `while !match_token(Eof) { parse_declaration() }`, by the kind of  *)
(* declaration the current token starts.                                   *)
(***************************************************************************)
InitCompiler ==
  /\ source \in Sources
  /\ CompilerNew
  /\ prog = ReturnOneProgram
  /\ overflow_checks = TRUE
  /\ VMNew
  /\ text = <<>>
  /\ cursor = ScannerNew
  /\ scanned = <<>>

\* compile(): the first advance()
CompileBegin ==
  /\ cstatus = "new"
  /\ ApplyC(advance([C EXCEPT !.status = "compiling"]))
  /\ UNCHANGED <<source, compiled, vmvars, svars>>

Declare == ApplyC(parse_declaration(C))

DeclareVar ==
  /\ cstatus = "compiling"
  /\ check(C, "Var")
  /\ Declare
  /\ UNCHANGED <<source, compiled, vmvars, svars>>

DeclareFun ==
  /\ cstatus = "compiling"
  /\ check(C, "Fun")
  /\ Declare
  /\ UNCHANGED <<source, compiled, vmvars, svars>>

DeclareStatement ==
  /\ cstatus = "compiling"
  /\ current.token_type \notin {"Var", "Fun", "Eof"}
  /\ Declare
  /\ UNCHANGED <<source, compiled, vmvars, svars>>

\* match_token(Eof) holds: the loop ends, consume(Eof) and the Function
CompileEnd ==
  /\ cstatus = "compiling"
  /\ check(C, "Eof")
  /\ LET ended == consume(advance(C), "Eof", "Expect end of the expression")
     IN /\ ApplyC([ended EXCEPT !.status = "done"])
        /\ compiled' = FunctionNew(0, ended.builder.chunk, <<>>)
  /\ UNCHANGED <<source, vmvars, svars>>

\* one more pass of synchronize()'s loop at Eof: advance() yields Eof again
SynchronizeSpin ==
  /\ cstatus = "hang"
  /\ check(C, "Eof")
  /\ ApplyC([advance([C EXCEPT !.status = "compiling"]) EXCEPT !.status = "hang"])
  /\ UNCHANGED <<source, compiled, vmvars, svars>>

NextCompiler ==
  \/ CompileBegin
  \/ DeclareVar
  \/ DeclareFun
  \/ DeclareStatement
  \/ CompileEnd
  \/ SynchronizeSpin

SpecCompiler == InitCompiler /\ [][NextCompiler]_vars

(***************************************************************************)
(* Scanner::new and the caller's calls of scan().                          *)
(***************************************************************************)
\* space, newline, `"`, `/`, `0`, `1`, `;`, `a`
Bytes == {32, 10, 34, 47, 48, 49, 59, 97}

Texts ==
  UNION {[1..n -> Bytes] : n \in 0..MaxText}
    \cup { \* 1.5;
           <<49, 46, 53, 59>>,
           \* or a1;
           <<111, 114, 32, 97, 49, 59>>,
           \* a==1;
           <<97, 61, 61, 49, 59>>,
           \* 01;
           <<48, 49, 59>>,
           \* // a <newline> 1;
           <<47, 47, 32, 97, 10, 49, 59>> }

InitScanner ==
  /\ text \in Texts
  /\ cursor = ScannerNew
  /\ scanned = <<>>
  /\ source = <<>>
  /\ CompilerNew
  /\ prog = ReturnOneProgram
  /\ overflow_checks = TRUE
  /\ VMNew

\* one call of scan(): the token is handed out unless the call panicked
ScanToken ==
  /\ cursor.status = "ready"
  /\ Len(scanned) < MaxScans
  /\ With(scan(cursor), LAMBDA r :
       /\ cursor' = r.s
       /\ scanned' = IF r.s.status = "ready" THEN Append(scanned, r.tok)
                     ELSE scanned)
  /\ UNCHANGED <<text, vmvars, cvars>>

NextScanner == ScanToken

SpecScanner == InitScanner /\ [][NextScanner]_vars

(***************************************************************************)
(* Claims about the VM (checked under SpecVM).                             *)
(***************************************************************************)
CounterPrograms == {MakeCounterProgram, MakeCounterDirectProgram}

\* C1: a closure that captured a local of a returned frame reads and writes
\* one persistent cell: the first interpret of the makeCounter program ends
\* successfully having printed 1, 2, 3 (one line per call of c()).
C1_CounterPrints ==
  (prog \in CounterPrograms /\ calls = 1 /\ status \in {"ok", "error", "panic"})
    => /\ status = "ok"
       /\ out = [i \in 1..MaxCounterCalls |-> Format(Double(i))]

\* C2: Return with value r pops the frame, leaves the slots below frame.base
\* unchanged, cuts the stack to frame.base and pushes r; the caller resumes
\* at the opcode after its Call, and Return in the last frame ends interpret
\* successfully.
C2_ReturnToCaller ==
  [][(At("OpReturn") /\ frame = Len(frames) /\ Len(stack) > Cur(VM).base)
       => LET base == Cur(VM).base
              r == Top(VM)
              n == Len(frames)
          IN /\ Len(frames') = n - 1
             /\ stack' = Append(SubSeq(stack, 1, base), r)
             /\ IF n = 1 THEN status' = "ok"
                ELSE /\ status' = "running"
                     /\ frame' = n - 1
                     /\ frames'[n - 1] = [frames[n - 1] EXCEPT !.ip = @ + 1]]_vmvars

\* C3: Call n with a Closure at distance n from the top: when the arity
\* differs from n, interpret ends with RuntimeError "Expected <arity>
\* arguments but got <n>" and no frame is pushed; otherwise a CallFrame with
\* ip = 0 and base = len - n - 1 is pushed, slot base holding the callee and
\* slots base+1 .. base+n the arguments.
C3_Call ==
  [][(At("OpCall") /\ ~PeekPanics(VM, CurCode(VM).a)
        /\ Peek(VM, CurCode(VM).a).t = "Closure")
       => LET n == CurCode(VM).a
              callee == Peek(VM, n)
              arity == prog.fns[callee.n].arity
          IN IF arity # n
               THEN /\ status' = "error"
                    /\ err' = Msg("Expected {} arguments but got {}", arity, n, <<>>)
                    /\ frames' = frames
               ELSE /\ status' = "running"
                    /\ Len(frames') = Len(frames) + 1
                    /\ frame' = Len(frames')
                    /\ \A i \in 1..Len(frames) : frames'[i] = frames[i]
                    /\ frames'[frame'].ip = 0
                    /\ frames'[frame'].base = Len(stack) - n - 1
                    /\ frames'[frame'].closure = callee
                    /\ stack' = stack
                    /\ stack'[frames'[frame'].base + 1] = callee
                    /\ \A i \in 1..n :
                         stack'[frames'[frame'].base + 1 + i] = Peek(VM, n - i)]_vmvars

\* a frame pushed by Call 1 on a one-parameter closure, not yet started
C3_Witness ==
  /\ status = "running"
  /\ Len(frames) = 2 /\ frame = 2
  /\ frames[2].ip = 0
  /\ prog.fns[frames[2].closure.n].arity = 1
  /\ frames[2].base = Len(stack) - 2
  /\ stack[frames[2].base + 1] = frames[2].closure

\* an opcode of the current interpret call has produced a RuntimeError
Raised == err # NoMsg /\ status # "panic"

\* C8: when an opcode produces a RuntimeError, interpret returns it at once:
\* within that interpret call no later opcode executes, so the stack, the
\* globals, the output, the frames and the upvalues stay as they are.
C8_ErrorStops ==
  [][/\ Raised' => status' = "error"
     /\ (Raised /\ calls' = calls)
          => UNCHANGED <<stack, heap, globals, frames, frame, upvalues, out>>]_vmvars

\* interpret has returned a RuntimeError with opcodes left in the chunk
C8_Witness ==
  /\ status = "error"
  /\ err.text = "Undefined variable"
  /\ Cur(VM).ip + 1 < Len(CurFn(VM).codes)

Falsy(v) == v.t = "Nil" \/ (v.t = "Bool" /\ v.n = 0)

\* C9: truthy(v) is false exactly for Nil and Bool(false); JumpIfFalse off
\* adds off to ip exactly when the top of the stack is falsy, goes on with
\* the next opcode otherwise, and leaves the stack unchanged.
C9_JumpIfFalse ==
  [][(At("OpJumpIfFalse") /\ Len(stack) > 0)
       => /\ truthy(Top(VM)) <=> ~Falsy(Top(VM))
          /\ status' = "running"
          /\ stack' = stack
          /\ frame' = frame
          /\ frames' = [frames EXCEPT
               ![frame].ip = @ + (IF Falsy(Top(VM)) THEN CurCode(VM).a ELSE 1)]]_vmvars

\* JumpIfFalse 2 has just fallen through on Double 0
C9_Witness ==
  /\ status = "running"
  /\ Cur(VM).ip \in 1..Len(CurFn(VM).codes)
  /\ CurFn(VM).codes[Cur(VM).ip] = OpA("OpJumpIfFalse", 2)
  /\ Len(stack) > 0
  /\ Top(VM) = Double(0)

\* C10: Not replaces the top value x by Bool(!truthy(x)): true when x is Nil
\* or false, false for every other x.
C10_Not ==
  [][(At("OpNot") /\ Len(stack) > 0)
       => stack' = Append(SubSeq(stack, 1, Len(stack) - 1), Bool(Falsy(Top(VM))))]_vmvars



(***************************************************************************)
(* Claims about the compiler (checked under SpecCompiler).                 *)
(***************************************************************************)
HasOp(function, o) ==
  \E i \in 1..Len(function.chunk.codes) : function.chunk.codes[i].op = o

\* C4: `and` and `or` are infix operators: the source
\* `print false and (1/0); print true or (1/0);` compiles without a
\* diagnostic, and its code holds the JumpIfFalse/Jump of the short circuit.
C4_ShortCircuit ==
  source = ShortCircuitSource
    => /\ diagnostics = <<>>
       /\ errors = <<>>
       /\ cstatus = "done"
            => HasOp(compiled, "OpJumpIfFalse") /\ HasOp(compiled, "OpJump")

\* C5: when compile() has finished and a diagnostic was printed, the errors
\* list is not empty.
C5_DiagnosticCounted ==
  (cstatus = "done" /\ diagnostics # <<>>) => errors # <<>>

\* C6: compile() neither loops for ever nor aborts: it is never inside a
\* loop without exit and never panics.
C6_CompileTerminates == cstatus \notin {"hang", "panic"}

\* C7: no diagnostic follows another without a synchronize() between them;
\* synchronize() returns, and then panic_mode is clear and the current token
\* is just past a semicolon or on a keyword that starts a statement.
C7_PanicMode ==
  /\ \A i \in 1..(Len(log) - 1) : ~(log[i] = "diag" /\ log[i + 1] = "diag")
  /\ (synced /\ cstatus # "done")
       => /\ cstatus = "compiling"
          /\ ~panic_mode
          /\ previous.token_type = "SemiColon" \/ current.token_type \in SyncKeywords


(***************************************************************************)
(* Not twice, Equal, Add on strings, operand types.                        *)
(***************************************************************************)
\* the two opcodes before ip are Not, Not and the one before them pushed a
\* constant: `Constant k; Not; Not` has just run
AfterNotNot ==
  /\ status = "running"
  /\ Cur(VM).ip \in 3..Len(CurFn(VM).codes)
  /\ CurFn(VM).codes[Cur(VM).ip] = Op("OpNot")
  /\ CurFn(VM).codes[Cur(VM).ip - 1] = Op("OpNot")
  /\ CurFn(VM).codes[Cur(VM).ip - 2].op = "OpConstant"

\* the constant x that `Constant k; Not; Not` started from
NotNotOperand == CurFn(VM).values[CurFn(VM).codes[Cur(VM).ip - 2].a + 1]

\* C11: for every value x, executing Not twice on x leaves Bool(truthy(x)) on
\* top of the stack.
C11_NotNot ==
  AfterNotNot => Len(stack) > 0 /\ Top(VM) = Bool(truthy(NotNotOperand))

\* Not Not on Double 0 has left true: the result is the truthiness of the
\* operand, not the operand
C11_Witness ==
  AfterNotNot /\ NotNotOperand = Double(0) /\ Top(VM) = Bool(TRUE)


\* the equality the language defines: same variant and equal; a Function or a
\* Closure equals itself (a value of the model names one object: Function(k)
\* is the Rc of fns[k], and a Closure value is read back from the one global
\* or constant that holds it)
SameValue(l, r) == l.t = r.t /\ l = r

\* C12: Equal pops two values and pushes true exactly when they are of the
\* same variant and equal (Nil with Nil, equal Bools, equal Doubles, Strings
\* of the same content, Functions/Closures that are the same object) and
\* false for every pair of different variants.
C12_Equal ==
  [][(At("OpEqual") /\ Len(stack) >= 2)
       => /\ status' = "running"
          /\ stack' = Append(SubSeq(stack, 1, Len(stack) - 2),
                             Bool(SameValue(Peek(VM, 1), Peek(VM, 0))))]_vmvars

\* C13: Add on two Strings, l at peek(1) and r at peek(0), replaces both by
\* the one String l followed by r; `print a + b` with a = "foo", b = "bar"
\* prints foobar.
C13_Concat ==
  [][(At("OpAdd") /\ Len(stack) >= 2
        /\ Peek(VM, 0).t = "String" /\ Peek(VM, 1).t = "String")
       => /\ status' = "running"
          /\ stack' = Append(SubSeq(stack, 1, Len(stack) - 2),
                             String(Peek(VM, 1).s \o Peek(VM, 0).s))]_vmvars

\* the operands an arithmetic or comparison opcode accepts
OperandsAccepted ==
  CASE CurCode(VM).op = "OpNegate" -> Top(VM).t = "Double"
    [] CurCode(VM).op = "OpAdd" ->
         \/ Peek(VM, 0).t = "Double" /\ Peek(VM, 1).t = "Double"
         \/ Peek(VM, 0).t = "String" /\ Peek(VM, 1).t = "String"
    [] OTHER -> Peek(VM, 0).t = "Double" /\ Peek(VM, 1).t = "Double"

ArithmeticOps ==
  {"OpAdd", "OpSubtract", "OpMultiply", "OpDivide", "OpGreater", "OpLess"}

\* C14: Add, Subtract, Multiply, Divide, Greater, Less and Negate end
\* interpret with a RuntimeError whenever their operands are not all Double
\* (for Add: and not both String), in either operand order.
C14_TypeError ==
  [][(/\ InLoop
      /\ \/ CurCode(VM).op \in ArithmeticOps /\ Len(stack) >= 2
         \/ CurCode(VM).op = "OpNegate" /\ Len(stack) >= 1
      /\ ~OperandsAccepted)
       => status' = "error" /\ err' # NoMsg]_vmvars

\* C15: for Double operands a (below) and b (top), each of Add, Subtract,
\* Multiply, Divide, Greater and Less removes both operands and pushes the
\* one result a op b, and ip advances by exactly one.
C15_Binary ==
  [][(/\ InLoop
      /\ CurCode(VM).op \in ArithmeticOps /\ Len(stack) >= 2
      /\ Peek(VM, 0).t = "Double" /\ Peek(VM, 1).t = "Double")
       => /\ status' = "running"
          /\ Len(stack') = Len(stack) - 1
          /\ SubSeq(stack', 1, Len(stack) - 2) = SubSeq(stack, 1, Len(stack) - 2)
          /\ stack'[Len(stack')] =
               Arith(CASE CurCode(VM).op = "OpAdd" -> "+"
                       [] CurCode(VM).op = "OpSubtract" -> "-"
                       [] CurCode(VM).op = "OpMultiply" -> "*"
                       [] CurCode(VM).op = "OpDivide" -> "/"
                       [] CurCode(VM).op = "OpGreater" -> ">"
                       [] OTHER -> "<",
                     Peek(VM, 1).n, Peek(VM, 0).n)
          /\ frames' = [frames EXCEPT ![frame].ip = @ + 1]]_vmvars


(***************************************************************************)
(* Globals.                                                                *)
(***************************************************************************)
\* the operand of a global opcode names a String constant
GlobalNamed ==
  /\ CurCode(VM).a < Len(CurFn(VM).values)
  /\ CurFn(VM).values[CurCode(VM).a + 1].t = "String"

GlobalName == CurFn(VM).values[CurCode(VM).a + 1].s

\* C16: GetGlobal and SetGlobal on a name that is not in the globals map end
\* interpret with a RuntimeError and leave the map without that name; only
\* DefineGlobal adds a name, and DefineGlobal on a name already present
\* overwrites its value and keeps one entry for it.
C16_Globals ==
  [][/\ (/\ At("OpGetGlobal") \/ (At("OpSetGlobal") /\ Len(stack) > 0)
         /\ GlobalNamed
         /\ GlobalName \notin DOMAIN globals)
          => /\ status' = "error"
             /\ err' = Msg("Undefined variable", 0, 0, GlobalName)
             /\ globals' = globals
     /\ (DOMAIN globals' # DOMAIN globals)
          => /\ At("OpDefineGlobal")
             /\ DOMAIN globals' = DOMAIN globals \cup {GlobalName}
     /\ (At("OpDefineGlobal") /\ GlobalNamed /\ Len(stack) > 0)
          => /\ status' = "running"
             /\ DOMAIN globals' = DOMAIN globals \cup {GlobalName}
             /\ globals'[GlobalName] = Top(VM)
             /\ \A k \in DOMAIN globals \ {GlobalName} : globals'[k] = globals[k]]_vmvars

\* a was defined twice and then assigned, c was assigned without a
\* definition: the run ended with the error on c and a is the only global
C16_Witness ==
  /\ prog = GlobalsProgram
  /\ status = "error"
  /\ err = Msg("Undefined variable", 0, 0, NameC)
  /\ DOMAIN globals = {NameA}
  /\ globals[NameA] = Double(1)
  /\ out = <<Format(Double(0))>>

(***************************************************************************)
(* Whole programs.                                                         *)
(***************************************************************************)
\* interpret has returned or the thread has panicked
Ended == status \in {"ok", "error", "panic"}

\* C17: `print 1 + 2 * 3;` (code 1 2 3 Multiply Add Print) writes exactly the
\* one line 7, the plain formatting of the value, with no variant tag.
C17_PrintSeven ==
  (prog = ArithProgram /\ Ended)
    => status = "ok" /\ out = <<[tag |-> "", n |-> 7, s |-> <<>>]>>

\* C18: `var i = 0; while (i < 3) { print i; i = i + 1; }` prints 0, 1, 2,
\* terminates, and leaves the stack as high as it was before the loop.
C18_While ==
  (prog = WhileProgram /\ Ended)
    => /\ status = "ok"
       /\ Len(out) = 3
       /\ \A i \in 1..3 : out[i].n = i - 1
       /\ stack = <<>>

(***************************************************************************)
(* Stack underflow, non-callable callee, upvalues at Return.               *)
(***************************************************************************)
\* the number of stack values the opcode at ip pops or peeks
Needs ==
  CASE CurCode(VM).op \in {"OpNegate", "OpNot", "OpPrint", "OpPop", "OpJumpIfFalse",
                           "OpSetLocal", "OpReturn", "OpCloseUpvalue"} -> 1
    [] CurCode(VM).op \in ArithmeticOps \cup {"OpEqual"} -> 2
    [] CurCode(VM).op = "OpCall" -> CurCode(VM).a + 1
    [] OTHER -> 0

\* C19: popping or peeking a stack that is empty or too short, and calling a
\* value that is neither a Closure nor a NativeFunction, each end interpret
\* with a RuntimeError returned to the host; none crashes the host or is
\* silently ignored.
C19_Underflow ==
  [][/\ (InLoop /\ Len(stack) < Needs) => status' = "error" /\ err' # NoMsg
     /\ (/\ At("OpCall") /\ Len(stack) >= Needs
         /\ Peek(VM, CurCode(VM).a).t \notin {"Closure", "NativeFunction"})
          => status' = "error" /\ err' # NoMsg]_vmvars

\* C20: when a frame executes Return, every open upvalue whose slot is at or
\* above frame.base is closed, so that afterwards no open upvalue refers to
\* a stack index at or above the new stack length; Return completes normally
\* also when slots of the frame were never captured.
C20_ReturnCloses ==
  [][(At("OpReturn") /\ Len(stack) > 0)
       => /\ status' \in {"running", "ok"}
          /\ \A i \in 1..Len(upvalues') :
               ~upvalues'[i].is_hoist => upvalues'[i].location < Len(stack')]_vmvars


(***************************************************************************)
(* Upvalue cells.                                                          *)
(***************************************************************************)
\* the positions of the open cells in the VM's upvalue list
OpenCells == {i \in 1..Len(upvalues) : ~upvalues[i].is_hoist}

\* C21: in every reachable VM state no two distinct open cells of the VM's
\* upvalue list refer to the same stack slot.
C21_OneOpenCellPerSlot ==
  \A i, j \in OpenCells : upvalues[i].location = upvalues[j].location => i = j

\* two closures on the stack share the one open cell of slot 0
C21_Witness ==
  /\ prog = CaptureProgram
  /\ status = "running"
  /\ Len(stack) = 3
  /\ stack[2].t = "Closure" /\ stack[3].t = "Closure"
  /\ stack[2].s = <<1>> /\ stack[3].s = <<1>>
  /\ upvalues = <<UpValueNew(0)>>


\* the closure OpClosure has just pushed, and the function it was made from
NewClosure == stack'[Len(stack')]
ClosureMetas == prog.fns[Top(VM).n].upvalues

\* C22: MakeClosure, for an UpValueMeta with is_local and index i executed in
\* a frame with base b, gives the new closure an open cell that refers to
\* stack slot b + i, reusing the open cell of that slot when there is one and
\* never a closed cell; for a meta that is not local it reuses the executing
\* closure's upvalues[i].
C22_MakeClosure ==
  [][(/\ At("OpClosure") /\ Len(stack) > 0 /\ Top(VM).t = "Function"
      /\ \A k \in 1..Len(ClosureMetas) :
           ~ClosureMetas[k].is_local => ClosureMetas[k].index < Len(Cur(VM).closure.s))
       => /\ status' = "running"
          /\ NewClosure.t = "Closure"
          /\ Len(NewClosure.s) = Len(ClosureMetas)
          /\ \A k \in 1..Len(ClosureMetas) :
               LET meta == ClosureMetas[k]
                   cell == NewClosure.s[k]
                   slot == Cur(VM).base + meta.index
               IN IF meta.is_local
                    THEN /\ ~upvalues'[cell].is_hoist
                         /\ upvalues'[cell].location = slot
                         /\ (cell <= Len(upvalues)) => ~upvalues[cell].is_hoist
                         /\ \A i \in OpenCells : upvalues[i].location = slot => cell = i
                    ELSE cell = Cur(VM).closure.s[meta.index + 1]]_vmvars

\* C23: a closed cell stays closed and keeps denoting the same heap entry; no
\* CloseUpvalue, Return or MakeClosure reopens or redirects it; the value it
\* denotes changes only through SetUpvalue on that cell.
C23_ClosedStaysClosed ==
  [][\A i \in 1..Len(upvalues) :
       upvalues[i].is_hoist
         => /\ Len(upvalues') >= i
            /\ upvalues'[i] = upvalues[i]
            /\ upvalues[i].location < Len(heap)
                 => /\ Len(heap') > upvalues[i].location
                    /\ heap'[upvalues[i].location + 1] # heap[upvalues[i].location + 1]
                         => /\ At("OpSetUpValue")
                            /\ \E k \in 1..Len(Cur(VM).closure.s) :
                                 Cur(VM).closure.s[k] = i]_vmvars


(***************************************************************************)
(* Successive interpret calls on one VM.                                   *)
(***************************************************************************)
\* C24: every call of interpret(closure) executes the chunk of the closure
\* it was given from ip 0: after an earlier interpret has returned the frame
\* stack is empty again, so the new call runs in a fresh frame of its own.
C24_FreshFrame ==
  [][(calls' # calls)
       => /\ Len(frames') = 1
          /\ \E e \in prog.scripts : frames'[frame'] = CallFrameNew(Closure(e, <<>>), 0)]_vmvars


(***************************************************************************)
(* Locals and scopes.                                                      *)
(***************************************************************************)
\* the slot of a name in a locals list: the position (from 0) of its
\* innermost, that is last, declaration
SlotOf(locals, name) ==
  (CHOOSE i \in 1..Len(locals) :
     /\ locals[i].name = name
     /\ \A j \in 1..Len(locals) : locals[j].name = name => j <= i) - 1

IsLocalOp(code) == code.op \in {"OpGetLocal", "OpSetLocal"}

\* C25: for an identifier that names a local of the current Builder, the
\* operand of the emitted GetLocal/SetLocal is the local's slot position in
\* the locals list (slot 0 reserved, then declaration order); with several
\* locals in scope each name resolves to its own slot.
C25_LocalSlot ==
  /\ \A i \in 1..Len(builder.locals) :
       resolve_local(C, builder.locals[i].name)
         = SlotOf(builder.locals, builder.locals[i].name)
  /\ (source = TwoLocalsSource /\ previous.token_type = "RightBrace")
       => SelectSeq(builder.chunk.codes, IsLocalOp)
            = <<OpA("OpGetLocal", 1), OpA("OpGetLocal", 2)>>

\* C26: compiling a block (and the body scope of a function) completes
\* without crashing, and scope exit removes the locals declared in the scope
\* with one Pop each, so that the locals count after the block is the count
\* before it.
C26_ScopeExit ==
  (source \in {BlockLocalSource, TwoLocalsSource, ParameterSource})
    => /\ cstatus # "panic"
       /\ cstatus = "done"
            => /\ Len(builder.locals) = 1
               /\ source = BlockLocalSource
                    => compiled.chunk.codes[Len(compiled.chunk.codes)] = Op("OpPop")

\* the change of the stack height an opcode without control transfer makes
StackEffect(code) ==
  CASE code.op \in {"OpConstant", "OpNil", "OpTrue", "OpFalse", "OpGetGlobal",
                    "OpGetLocal", "OpGetUpValue"} -> 1
    [] code.op \in {"OpAdd", "OpSubtract", "OpMultiply", "OpDivide", "OpEqual",
                    "OpGreater", "OpLess", "OpPrint", "OpPop", "OpDefineGlobal"} -> -1
    [] OTHER -> 0

StraightLine(codes) ==
  \A i \in 1..Len(codes) :
    codes[i].op \notin {"OpJump", "OpJumpIfFalse", "OpLoop", "OpCall", "OpReturn",
                        "OpClosure", "OpCloseUpvalue"}

RECURSIVE NetEffect(_, _)
NetEffect(codes, k) ==
  IF k = 0 THEN 0 ELSE NetEffect(codes, k - 1) + StackEffect(codes[k])

\* C27: every statement is stack-neutral: the code emitted for a statement
\* leaves the stack as high as it was; the code of an expression statement
\* ends with a Pop.
C27_StackNeutral ==
  (/\ cstatus = "done" /\ diagnostics = <<>> /\ errors = <<>>
   /\ StraightLine(compiled.chunk.codes))
    => NetEffect(compiled.chunk.codes, Len(compiled.chunk.codes)) = 0


(***************************************************************************)
(* Chunks: jump patching, codes and lines, the constant pool.              *)
(***************************************************************************)
IsJump(code) == code.op \in {"OpJump", "OpJumpIfFalse"}

\* every Jump/JumpIfFalse of codes has an operand of at least 1 that stays
\* within codes
JumpsPatched(codes) ==
  \A i \in 1..Len(codes) :
    IsJump(codes[i]) => codes[i].a >= 1 /\ (i - 1) + codes[i].a <= Len(codes)

CodesMatchLines(chunk) == Len(chunk.codes) = Len(chunk.lines)

\* the builder is the script's (its reserved local 0 has the empty name)
ScriptBuilder(b) == b.locals[1].name = <<>>

TargetEquals ==
  {p \in 1..Len(source) :
     /\ source[p].token_type = "Equal"
     /\ ~(p >= 3 /\ source[p - 2].token_type = "Var"
                 /\ source[p - 1].token_type = "Identifier")}

\* the `=` at p follows an identifier that is the whole prefix of an
\* expression parsed at assignment level
AssignableAt(p) ==
  /\ p >= 2
  /\ source[p - 1].token_type = "Identifier"
  /\ p >= 3 => source[p - 2].token_type \in
                 {"SemiColon", "Equal", "LeftParen", "RightParen", "Print",
                  "LeftBrace", "RightBrace", "Comma", "Else", "Return"}

SetOps(codes) ==
  Cardinality({i \in 1..Len(codes) : codes[i].op \in {"OpSetGlobal", "OpSetLocal"}})

\* every store comes right after code that leaves the assigned value on the
\* stack: the right-hand side was compiled first
SetAfterRightHandSide(codes) ==
  \A i \in 1..Len(codes) :
    codes[i].op \in {"OpSetGlobal", "OpSetLocal"}
      => /\ i > 1
         /\ codes[i - 1].op \in {"OpConstant", "OpNil", "OpTrue", "OpFalse",
                                  "OpGetGlobal", "OpGetLocal", "OpGetUpValue",
                                  "OpSetGlobal", "OpSetLocal", "OpAdd", "OpSubtract",
                                  "OpMultiply", "OpDivide", "OpNegate", "OpNot",
                                  "OpEqual", "OpGreater", "OpLess", "OpCall"}

\* sources whose first statement has an `=` after an operand that is not an
\* identifier parsed at assignment level
\* (an Error token right after the `=` is reported first and leaves the parser
\* in panic mode, so such sources are left to the panic-mode rule)
InvalidTargetSource ==
  \/ source \in {SumTargetSource, GroupTargetSource}
  \/ /\ Len(source) >= 2
     /\ source[1].token_type = "Number"
     /\ source[2].token_type = "Equal"
     /\ Len(source) >= 3 => source[3].token_type # "Error"

C30_AssignmentTaken ==
  /\ cstatus = "done" /\ diagnostics = <<>> /\ errors = <<>>
  /\ Cardinality(TargetEquals) = 1
  /\ SetOps(compiled.chunk.codes) = 1


(***************************************************************************)
(* Expressions, loops, returns, functions and local declarations.          *)
(***************************************************************************)
\* the compiler has stopped: compile() returned, panicked or spins for ever
Stopped == cstatus \in {"done", "hang", "panic"}

\* compile() returned and nothing was reported
CleanCompile == cstatus = "done" /\ diagnostics = <<>> /\ errors = <<>>

\* the opcodes of codes without their operands
OpNames(codes) == [i \in 1..Len(codes) |-> codes[i].op]

\* C31: binary operators of equal precedence associate to the left:
\* `print 1 - 2 - 3;` compiles to 1 2 Subtract 3 Subtract Print, the right
\* operand of `-` being parsed one precedence level above Term.
C31_LeftAssociative ==
  (source = LeftAssocSource /\ Stopped)
    => /\ CleanCompile
       /\ OpNames(compiled.chunk.codes) =
            <<"OpConstant", "OpConstant", "OpSubtract", "OpConstant", "OpSubtract",
              "OpPrint">>

\* C32: every binary operator token is dispatched to its infix rule and
\* lowered as specified, without a crash or a diagnostic: `print 1 != 2;`
\* compiles to 1 2 Equal Not Print.
C32_BinaryLowering ==
  (source = BangEqualSource /\ Stopped)
    => /\ CleanCompile
       /\ OpNames(compiled.chunk.codes) =
            <<"OpConstant", "OpConstant", "OpEqual", "OpNot", "OpPrint">>

\* C33: both unary prefix operators are accepted without a compile error:
\* `print -1;` compiles to 1 Negate Print and `print !true;` to True Not
\* Print.
C33_UnaryPrefix ==
  /\ (source = NegateSource /\ Stopped)
       => /\ CleanCompile
          /\ OpNames(compiled.chunk.codes) = <<"OpConstant", "OpNegate", "OpPrint">>
  /\ (source = NotSource /\ Stopped)
       => /\ CleanCompile
          /\ OpNames(compiled.chunk.codes) = <<"OpTrue", "OpNot", "OpPrint">>

\* C34: the body of a for statement is compiled as part of the loop and the
\* Loop that closes it carries the backward delta to its target: in the code
\* of `for (;;) print 1;` the Print of the body comes before a Loop whose
\* operand leads back to the start of the body.
C34_ForLoop ==
  (source = ForeverSource /\ Stopped)
    => /\ CleanCompile
       /\ \E j \in 1..Len(compiled.chunk.codes) :
            /\ compiled.chunk.codes[j].op = "OpLoop"
            /\ (j - 1) - compiled.chunk.codes[j].a = 0
            /\ \E i \in 1..(j - 1) : compiled.chunk.codes[i].op = "OpPrint"

\* C35: `return;` compiles without error to Nil, Return and `return 1;` to
\* the constant followed by Return, also at the top level of a script.
C35_Return ==
  /\ (source = ReturnSource /\ Stopped)
       => /\ CleanCompile
          /\ SubSeq(OpNames(compiled.chunk.codes), 1, 2) = <<"OpNil", "OpReturn">>
  /\ (source = ReturnValueSource /\ Stopped)
       => /\ CleanCompile
          /\ OpNames(compiled.chunk.codes) = <<"OpConstant", "OpReturn">>

\* C36: compiling `fun f(a) { }` completes without crashing, produces a
\* Function of arity 1 whose chunk ends with Nil, Return, restores the
\* enclosing Builder and emits MakeClosure followed by the definition of f.
C36_FunctionDeclaration ==
  (source = OneParameterSource /\ Stopped)
    => /\ CleanCompile
       /\ Len(functions) = 1
       /\ functions[1].arity = 1
       /\ OpNames(functions[1].chunk.codes) = <<"OpNil", "OpReturn">>
       /\ builder.scope_depth = 0
       /\ ScriptBuilder(builder)
       /\ OpNames(compiled.chunk.codes) = <<"OpClosure", "OpDefineGlobal">>

AlreadyDeclared ==
  \E i \in 1..Len(diagnostics) :
    diagnostics[i].message = "Already variable with this name in this scope"

\* C37: declaring a local is an error only when the same scope already has
\* a local of that name: the inner `var a` of `{ var a = 1; { var a = 2; } }`
\* shadows the outer one without a diagnostic.
C37_Shadowing == source = ShadowSource => ~AlreadyDeclared

\* C38: inside a block, `var a = a;` is a compile error: the local is read
\* in its own initializer.
C38_OwnInitializer == (source = SelfInitSource /\ Stopped) => diagnostics # <<>>


(***************************************************************************)
(* Claims about the Scanner (checked under SpecScanner).                   *)
(***************************************************************************)
\* C39: scan() never reads past the end of the text: once all bytes are
\* consumed it returns Eof, and after an Eof every further scan() returns
\* Eof again; a number literal that begins with the digit 0 is scanned as a
\* Number token.
C39_ScanEnd ==
  /\ [](/\ cursor.status = "ready"
        /\ cursor.current <= Len(text)
        /\ (scanned # <<>> /\ text # <<>> /\ text[1] = 48)
             => scanned[1].token_type = "Number")
  /\ [][is_at_end(cursor)
          => /\ cursor'.status = "ready"
             /\ cursor'.current = cursor.current
             /\ scanned' = Append(scanned, [EofToken EXCEPT !.line = cursor.line])]_svars

=============================================================================
